---- MODULE Spec2Model ----
(***************************************************************************)
(* Model of the real-time bias scorer of the interview assistant backend   *)
(* (backend/app/routers/realtime_bias.py): the lexicon filter, the lazily  *)
(* trained classifier, score fusion, highlighting and the HTTP handler     *)
(* detect_realtime_bias.                                                   *)
(*                                                                         *)
(* Text is a sequence of one-character strings.  A float is an integer     *)
(* number of 1/ONE units (fixed point), so 0.7 is (7 * ONE) \div 10.       *)
(***************************************************************************)
EXTENDS Integers, Sequences, FiniteSets, TLC

\* The float 1.0 in fixed point: every confidence, weight and score is a
\* number of 1/ONE units.
ONE == 10000

\* Longest request text the model sends, in words of the Vocabulary.
MaxWords == 2

(***************************************************************************)
(* BIAS_CATEGORIES: keywords, context phrases and weight per category, in  *)
(* the dict's insertion order.  A category without "contexts" has none.    *)
(***************************************************************************)

gender_bias_keywords ==
    << <<"w","o","m","e","n">>,
       <<"m","e","n">>,
       <<"f","e","m","a","l","e">>,
       <<"m","a","l","e">>,
       <<"g","i","r","l">>,
       <<"b","o","y">>,
       <<"l","a","d","y">>,
       <<"g","e","n","t","l","e","m","a","n">> >>

\* Mutant of gender_bias_contexts: "should not" is a context phrase too.
gender_bias_contexts_with_should_not ==
    << <<"n","o","t"," ","g","o","o","d">>,
       <<"s","h","o","u","l","d","n","'","t">>,
       <<"s","h","o","u","l","d"," ","n","o","t">>,
       <<"c","a","n","'","t">>,
       <<"c","a","n","n","o","t">>,
       <<"t","o","o">>,
       <<"o","n","l","y">>,
       <<"p","r","e","f","e","r">>,
       <<"n","o","t"," ","s","u","i","t","a","b","l","e">> >>

gender_bias_contexts ==
    << <<"n","o","t"," ","g","o","o","d">>,
       <<"s","h","o","u","l","d","n","'","t">>,
       <<"c","a","n","'","t">>,
       <<"c","a","n","n","o","t">>,
       <<"t","o","o">>,
       <<"o","n","l","y">>,
       <<"p","r","e","f","e","r">>,
       <<"n","o","t"," ","s","u","i","t","a","b","l","e">> >>

age_bias_keywords ==
    << <<"y","o","u","n","g">>,
       <<"o","l","d">>,
       <<"a","g","e">>,
       <<"s","e","n","i","o","r">>,
       <<"j","u","n","i","o","r">>,
       <<"f","r","e","s","h">>,
       <<"e","x","p","e","r","i","e","n","c","e","d">>,
       <<"m","i","l","l","e","n","n","i","a","l">>,
       <<"b","o","o","m","e","r">> >>

age_bias_contexts ==
    << <<"t","o","o">>,
       <<"n","o","t"," ","s","u","i","t","a","b","l","e">>,
       <<"s","h","o","u","l","d","n","'","t">>,
       <<"c","a","n","'","t">>,
       <<"c","a","n","n","o","t">>,
       <<"n","o","t"," ","g","o","o","d">>,
       <<"o","n","l","y">>,
       <<"p","r","e","f","e","r">> >>

pejorative_keywords ==
    << <<"s","t","u","p","i","d">>,
       <<"i","d","i","o","t">>,
       <<"m","o","r","o","n">>,
       <<"d","u","m","b">>,
       <<"p","a","t","h","e","t","i","c">>,
       <<"w","o","r","t","h","l","e","s","s">>,
       <<"u","s","e","l","e","s","s">>,
       <<"i","n","c","o","m","p","e","t","e","n","t">>,
       <<"f","a","i","l","u","r","e">>,
       <<"l","o","s","e","r">> >>

subjective_keywords ==
    << <<"o","b","v","i","o","u","s","l","y">>,
       <<"c","l","e","a","r","l","y">>,
       <<"u","n","d","o","u","b","t","e","d","l","y">>,
       <<"d","e","f","i","n","i","t","e","l","y">>,
       <<"a","b","s","o","l","u","t","e","l","y">>,
       <<"n","e","v","e","r">>,
       <<"a","l","w","a","y","s">>,
       <<"e","v","e","r","y","o","n","e">>,
       <<"n","o","b","o","d","y">> >>

exaggeration_keywords ==
    << <<"a","m","a","z","i","n","g">>,
       <<"i","n","c","r","e","d","i","b","l","e">>,
       <<"t","e","r","r","i","b","l","e">>,
       <<"a","w","f","u","l">>,
       <<"h","o","r","r","i","b","l","e">>,
       <<"f","a","n","t","a","s","t","i","c">>,
       <<"p","e","r","f","e","c","t">>,
       <<"w","o","r","s","t">>,
       <<"b","e","s","t">>,
       <<"b","r","i","l","l","i","a","n","t">> >>

stereotyping_keywords ==
    << <<"t","y","p","i","c","a","l">>,
       <<"u","s","u","a","l","l","y">>,
       <<"g","e","n","e","r","a","l","l","y">>,
       <<"m","o","s","t">>,
       <<"a","l","l">>,
       <<"e","v","e","r","y">>,
       <<"n","e","v","e","r">>,
       <<"a","l","w","a","y","s">>,
       <<"t","e","n","d"," ","t","o">>,
       <<"l","i","k","e","l","y">> >>

emotional_manipulation_keywords ==
    << <<"s","h","o","c","k","i","n","g">>,
       <<"o","u","t","r","a","g","e","o","u","s">>,
       <<"d","i","s","g","u","s","t","i","n","g">>,
       <<"a","p","p","a","l","l","i","n","g">>,
       <<"t","e","r","r","i","f","y","i","n","g">>,
       <<"d","e","v","a","s","t","a","t","i","n","g">>,
       <<"h","e","a","r","t","b","r","e","a","k","i","n","g">> >>

confirmation_bias_keywords ==
    << <<"a","s"," ","e","x","p","e","c","t","e","d">>,
       <<"n","o","t"," ","s","u","r","p","r","i","s","i","n","g">>,
       <<"p","r","e","d","i","c","t","a","b","l","y">>,
       <<"o","b","v","i","o","u","s","l","y">>,
       <<"c","l","e","a","r","l","y">>,
       <<"u","n","d","o","u","b","t","e","d","l","y">> >>

BIAS_CATEGORIES ==
    << [category |-> "gender_bias",
        description |-> "Gender-based discrimination or stereotyping",
        keywords |-> gender_bias_keywords,
        has_contexts |-> TRUE,
        contexts |-> gender_bias_contexts,
        weight |-> (10 * ONE) \div 10],
       [category |-> "age_bias",
        description |-> "Age-based discrimination",
        keywords |-> age_bias_keywords,
        has_contexts |-> TRUE,
        contexts |-> age_bias_contexts,
        weight |-> (10 * ONE) \div 10],
       [category |-> "pejorative",
        description |-> "Derogatory or insulting language",
        keywords |-> pejorative_keywords,
        has_contexts |-> FALSE,
        contexts |-> << >>,
        weight |-> (10 * ONE) \div 10],
       [category |-> "subjective",
        description |-> "Opinion-based rather than fact-based language",
        keywords |-> subjective_keywords,
        has_contexts |-> FALSE,
        contexts |-> << >>,
        weight |-> (6 * ONE) \div 10],
       [category |-> "exaggeration",
        description |-> "Overstated or hyperbolic language",
        keywords |-> exaggeration_keywords,
        has_contexts |-> FALSE,
        contexts |-> << >>,
        weight |-> (4 * ONE) \div 10],
       [category |-> "stereotyping",
        description |-> "Generalizations based on group characteristics",
        keywords |-> stereotyping_keywords,
        has_contexts |-> FALSE,
        contexts |-> << >>,
        weight |-> (8 * ONE) \div 10],
       [category |-> "emotional_manipulation",
        description |-> "Language designed to evoke strong emotional responses",
        keywords |-> emotional_manipulation_keywords,
        has_contexts |-> FALSE,
        contexts |-> << >>,
        weight |-> (7 * ONE) \div 10],
       [category |-> "confirmation_bias",
        description |-> "Language that confirms existing beliefs without evidence",
        keywords |-> confirmation_bias_keywords,
        has_contexts |-> FALSE,
        contexts |-> << >>,
        weight |-> (5 * ONE) \div 10] >>

(***************************************************************************)
(* Python's str operations on texts                                        *)
(***************************************************************************)

UpperCase ==
    <<"A","B","C","D","E","F","G","H","I","J","K","L","M",
      "N","O","P","Q","R","S","T","U","V","W","X","Y","Z">>

LowerCase ==
    <<"a","b","c","d","e","f","g","h","i","j","k","l","m",
      "n","o","p","q","r","s","t","u","v","w","x","y","z">>

\* The characters str.strip() and str.split() treat as white space.
Whitespace == {" ", "\t", "\n", "\r"}

\* One character of str.lower().
LowerChar(c) ==
    IF \E i \in 1..Len(UpperCase) : UpperCase[i] = c
    THEN LowerCase[CHOOSE i \in 1..Len(UpperCase) : UpperCase[i] = c]
    ELSE c

\* str.lower()
lower(s) == [i \in 1..Len(s) |-> LowerChar(s[i])]

\* str.strip(): leading and trailing white space removed.
strip(s) ==
    LET inked == {i \in 1..Len(s) : s[i] \notin Whitespace}
    IN  IF inked = {} THEN << >>
        ELSE SubSeq(s, CHOOSE i \in inked : \A j \in inked : i <= j,
                       CHOOSE i \in inked : \A j \in inked : i >= j)

\* s[a:b] for 0 <= a, with Python's clipping of b to len(s).
Slice(s, a, b) == SubSeq(s, a + 1, IF b > Len(s) THEN Len(s) ELSE b)

\* s.find(k): the 0-based offset of the first occurrence of k in s, or -1.
find(s, k) ==
    LET hits == {i \in 0..(Len(s) - Len(k)) : \A j \in 1..Len(k) : s[i + j] = k[j]}
    IN  IF hits = {} THEN -1 ELSE CHOOSE i \in hits : \A j \in hits : i <= j

\* k in s
Contains(s, k) == find(s, k) >= 0

\* str.split(): the maximal runs of non-white-space characters, in order.
RECURSIVE SplitFrom(_, _, _, _)
SplitFrom(s, i, cur, acc) ==
    IF i > Len(s) THEN (IF cur = << >> THEN acc ELSE Append(acc, cur))
    ELSE IF s[i] \in Whitespace
         THEN SplitFrom(s, i + 1, << >>, IF cur = << >> THEN acc ELSE Append(acc, cur))
         ELSE SplitFrom(s, i + 1, Append(cur, s[i]), acc)

split(s) == SplitFrom(s, 1, << >>, << >>)

\* " ".join(ws)
RECURSIVE join(_)
join(ws) ==
    IF ws = << >> THEN << >>
    ELSE IF Len(ws) = 1 THEN ws[1]
    ELSE ws[1] \o <<" ">> \o join(Tail(ws))

Max(a, b) == IF a >= b THEN a ELSE b
Min(a, b) == IF a <= b THEN a ELSE b

(***************************************************************************)
(* _fast_lexicon_filter                                                    *)
(***************************************************************************)

\* The index (0-based) of the first word that contains the keyword, or -1:
\* the loop of lines 174-177.
WordIndex(words, keyword) ==
    LET hits == {i \in 1..Len(words) : Contains(lower(words[i]), keyword)}
    IN  IF hits = {} THEN -1 ELSE (CHOOSE i \in hits : \A j \in hits : i <= j) - 1

\* any(ctx in text_lower for ctx in config["contexts"])
AnyContext(text_lower, config) ==
    \E c \in 1..Len(config.contexts) : Contains(text_lower, config.contexts[c])

\* Mutant of DetectionConfidence: the branch of line 192 is missing, so a
\* gender or age keyword without a context phrase keeps the default 0.9.
DetectionConfidence_default_without_context(text_lower, config) ==
    IF config.category \in {"gender_bias", "age_bias"} /\ config.has_contexts
       /\ AnyContext(text_lower, config)
    THEN ONE
    ELSE (9 * ONE) \div 10

\* The confidence of a detection: lines 186-193.
DetectionConfidence(text_lower, config) ==
    IF config.category \in {"gender_bias", "age_bias"} /\ config.has_contexts
    THEN IF AnyContext(text_lower, config) THEN ONE ELSE (7 * ONE) \div 10
    ELSE (9 * ONE) \div 10

\* One pass of the inner loop body (lines 168-203): the detections, none or
\* one, that one keyword of one category adds.
KeywordDetections(text_lower, words, config, keyword) ==
    IF ~Contains(text_lower, keyword) THEN << >>
    ELSE LET keyword_pos == find(text_lower, keyword)
             word_index == WordIndex(words, keyword)
         IN  IF word_index < 0 THEN << >>
             ELSE << [category |-> config.category,
                      keyword |-> keyword,
                      position |-> keyword_pos,
                      context |-> join(Slice(words, Max(0, word_index - 2),
                                              Min(Len(words), word_index + 3))),
                      weight |-> config.weight,
                      confidence |-> DetectionConfidence(text_lower, config),
                      description |-> config.description] >>

RECURSIVE CategoryDetections(_, _, _, _)
CategoryDetections(text_lower, words, config, k) ==
    IF k > Len(config.keywords) THEN << >>
    ELSE KeywordDetections(text_lower, words, config, config.keywords[k])
         \o CategoryDetections(text_lower, words, config, k + 1)

RECURSIVE DetectionsFrom(_, _, _)
DetectionsFrom(text_lower, words, c) ==
    IF c > Len(BIAS_CATEGORIES) THEN << >>
    ELSE CategoryDetections(text_lower, words, BIAS_CATEGORIES[c], 1)
         \o DetectionsFrom(text_lower, words, c + 1)

_fast_lexicon_filter(text) == DetectionsFrom(lower(text), split(text), 1)


(***************************************************************************)
(* The literal pieces of the f-string of _highlight_biased_words, and the  *)
(* characters of each category label as the f-string prints it.            *)
(***************************************************************************)

SpanStyle ==
    <<"<","s","p","a","n"," ","s","t","y","l","e","=","\"","b","a","c",
      "k","g","r","o","u","n","d","-","c","o","l","o","r",":"," ","r",
      "g","b","a","(","2","5","5",","," ","0",","," ","0",","," ">>

SpanTitle ==
    <<")",";"," ","c","o","l","o","r",":"," ","w","h","i","t","e",";",
      " ","p","a","d","d","i","n","g",":"," ","2","p","x"," ","4","p",
      "x",";"," ","b","o","r","d","e","r","-","r","a","d","i","u","s",
      ":"," ","3","p","x",";"," ","f","o","n","t","-","w","e","i","g",
      "h","t",":"," ","b","o","l","d",";","\""," ","t","i","t","l","e",
      "=","\"">>

SpanConfidence ==
    <<" ","(","c","o","n","f","i","d","e","n","c","e",":"," ">>

SpanEnd ==
    <<")","\"",">">>

SpanClose ==
    <<"<","/","s","p","a","n",">">>

CategoryChars(category) ==
    CASE category = "gender_bias" ->
           <<"g","e","n","d","e","r","_","b","i","a","s">>
      [] category = "age_bias" ->
           <<"a","g","e","_","b","i","a","s">>
      [] category = "pejorative" ->
           <<"p","e","j","o","r","a","t","i","v","e">>
      [] category = "subjective" ->
           <<"s","u","b","j","e","c","t","i","v","e">>
      [] category = "exaggeration" ->
           <<"e","x","a","g","g","e","r","a","t","i","o","n">>
      [] category = "stereotyping" ->
           <<"s","t","e","r","e","o","t","y","p","i","n","g">>
      [] category = "emotional_manipulation" ->
           <<"e","m","o","t","i","o","n","a","l","_","m","a","n","i","p","u","l","a","t","i","o","n">>
      [] category = "confirmation_bias" ->
           <<"c","o","n","f","i","r","m","a","t","i","o","n","_","b","i","a","s">>

(***************************************************************************)
(* Module state and the requests in flight                                 *)
(***************************************************************************)

VARIABLES
    bias_pipeline,  \* the module global: "None", "untrained" or "trained"
    vectorizer,     \* the module global: "None" or "set"
    classifier,     \* the module global: "None" or "set"
    train_count,    \* how many times bias_pipeline.fit has completed
    pc,             \* "idle", "received" (a request awaits its handler) or "responded"
    payload,        \* payload.text of the request
    response,       \* what the handler gave its caller
    call,           \* the handler's locals and the steps it ran
    only_empty_calls \* history: every text handled so far was the empty string

\* The state of one handler at a time serving /detect-realtime.
scorer_vars == <<bias_pipeline, vectorizer, classifier, train_count, pc, payload,
                 response, call, only_empty_calls>>

\* Request threads scoring concurrently: here the module globals are kept as
\* references, apart from the objects they refer to.
VARIABLES
    thread,         \* per request thread: program counter and locals
    refs,           \* the module globals as object references
    heap            \* the estimator and pipeline objects, and the fits completed

thread_vars == <<thread, refs, heap>>

\* The other endpoints of the API.
VARIABLES
    batch,          \* /batch-detect: the loop of batch_detect_bias
    sentiment,      \* /ai/sentiment: the last request and its response
    users,          \* the rows of the users table
    tokens,         \* the access tokens issued and not yet expired
    api,            \* the last response of the auth, users and admin routers
    revoked,        \* history: ids revoked by revoke_user and not approved since
    pending         \* history: ids created by signup that no admin has approved

auth_vars == <<users, tokens, api, revoked, pending>>

\* The rate limiter wrapped around the login endpoints.
VARIABLES
    limiter         \* the decorator's request_counts, the clock, and the last login

\* Interview sessions and their transcripts.
VARIABLES
    store           \* the sessions and transcripts tables, and the last response

\* /unified-analysis.
VARIABLES
    flagged_detections, \* the module global list of unified_analysis.py line 43
    analysis            \* the request being answered, and the history of what
                        \* each user's calls have flagged since the last clear

\* Everything but the module globals and the single handler.

\* /questions and /ai/bias.
VARIABLES
    selection,  \* the distribution request being answered
    ai          \* the bias request of routers/ai.py or continuous_ai.py

unified_vars == <<flagged_detections, analysis>>

beside_scorer ==
    <<thread_vars, batch, sentiment, auth_vars, limiter, store, unified_vars, selection, ai>>

\* The single handler's request state.
request_vars == <<pc, payload, response, call, only_empty_calls>>

vars ==
    <<scorer_vars, thread_vars, batch, sentiment, auth_vars, limiter, store,
      unified_vars, selection, ai>>

globals == [bias_pipeline |-> bias_pipeline, vectorizer |-> vectorizer,
            classifier |-> classifier, train_count |-> train_count]

(***************************************************************************)
(* The statistical classifier.  The scikit-learn pipeline is a library:    *)
(* what construction, fit and predict do is an input of each call.         *)
(***************************************************************************)

\* What the library does in one call of _load_bias_pipeline: every step
\* succeeds, Pipeline(...) of line 96 raises, or fit of line 157 raises.
LoadOutcomes == {"ok", "pipeline_raises", "fit_raises"}

\* max(probability[0]) values the trained pipeline may report.
MLConfidences == {(6 * ONE) \div 10, ONE}

\* What predict/predict_proba do on a trained pipeline.
PredictOutcomes ==
    {[raises |-> TRUE, is_biased |-> FALSE, confidence |-> 0]}
    \cup {[raises |-> FALSE, is_biased |-> b, confidence |-> c] :
              b \in BOOLEAN, c \in MLConfidences}

\* _load_bias_pipeline with _train_bias_classifier: the globals afterwards,
\* and whether the HTTPException of line 107 was raised.
_load_bias_pipeline(g, load) ==
    IF g.bias_pipeline # "None" THEN [globals |-> g, raised |-> FALSE]
    ELSE CASE load = "pipeline_raises" ->
                [globals |-> [g EXCEPT !.vectorizer = "set", !.classifier = "set"],
                 raised |-> TRUE]
           [] load = "fit_raises" ->
                [globals |-> [g EXCEPT !.vectorizer = "set", !.classifier = "set",
                                        !.bias_pipeline = "untrained"],
                 raised |-> TRUE]
           [] OTHER ->
                [globals |-> [g EXCEPT !.vectorizer = "set", !.classifier = "set",
                                        !.bias_pipeline = "trained",
                                        !.train_count = @ + 1],
                 raised |-> FALSE]

\* Mutant of _sentence_level_classification: the except clause of line 218
\* returns (True, 0.5) instead of (False, 0.0).
_sentence_level_classification_flags_failure(g, load, predict) ==
    LET loaded == _load_bias_pipeline(g, load)
    IN  IF loaded.raised \/ loaded.globals.bias_pipeline # "trained" \/ predict.raises
        THEN [is_biased |-> TRUE, confidence |-> (5 * ONE) \div 10,
              failed |-> TRUE, globals |-> loaded.globals]
        ELSE [is_biased |-> predict.is_biased, confidence |-> predict.confidence,
              failed |-> FALSE, globals |-> loaded.globals]

\* _sentence_level_classification: (is_biased, confidence), whether the
\* except clause of line 218 produced them, and the globals afterwards.
\* Predicting with a pipeline that was never fitted raises.
_sentence_level_classification(g, load, predict) ==
    LET loaded == _load_bias_pipeline(g, load)
    IN  IF loaded.raised \/ loaded.globals.bias_pipeline # "trained" \/ predict.raises
        THEN [is_biased |-> FALSE, confidence |-> 0, failed |-> TRUE,
              globals |-> loaded.globals]
        ELSE [is_biased |-> predict.is_biased, confidence |-> predict.confidence,
              failed |-> FALSE, globals |-> loaded.globals]

(***************************************************************************)
(* Score fusion                                                            *)
(***************************************************************************)

\* sum(detection["weight"] * detection["confidence"] for detection in ...)
RECURSIVE TotalWeight(_)
TotalWeight(bias_detections) ==
    IF bias_detections = << >> THEN 0
    ELSE (bias_detections[1].weight * bias_detections[1].confidence) \div ONE
         + TotalWeight(Tail(bias_detections))

\* Mutant of _calculate_overall_bias_score: the two weights are swapped.
_calculate_overall_bias_score_swapped(bias_detections, ml_biased, ml_confidence) ==
    IF bias_detections = << >> /\ ~ml_biased THEN 0
    ELSE LET lexicon_score ==
                 IF bias_detections # << >>
                 THEN Min(TotalWeight(bias_detections) \div Len(bias_detections), ONE)
                 ELSE 0
             ml_score == IF ml_biased THEN ml_confidence ELSE 0
             overall_score == (lexicon_score * 3) \div 10 + (ml_score * 7) \div 10
         IN  Min(overall_score, ONE)

\* Mutant of _calculate_overall_bias_score: the weighted products are summed,
\* not averaged, and nothing is clamped.
_calculate_overall_bias_score_unclamped(bias_detections, ml_biased, ml_confidence) ==
    IF bias_detections = << >> /\ ~ml_biased THEN 0
    ELSE LET lexicon_score == TotalWeight(bias_detections)
             ml_score == IF ml_biased THEN ml_confidence ELSE 0
         IN  (lexicon_score * 7) \div 10 + (ml_score * 3) \div 10

_calculate_overall_bias_score(bias_detections, ml_biased, ml_confidence) ==
    IF bias_detections = << >> /\ ~ml_biased THEN 0
    ELSE LET lexicon_score ==
                 IF bias_detections # << >>
                 THEN Min(TotalWeight(bias_detections) \div Len(bias_detections), ONE)
                 ELSE 0
             ml_score == IF ml_biased THEN ml_confidence ELSE 0
             overall_score == (lexicon_score * 7) \div 10 + (ml_score * 3) \div 10
         IN  Min(overall_score, ONE)

\* max([detection["confidence"] for detection in lexicon_bias], default=0.0)
RECURSIVE MaxConfidence(_)
MaxConfidence(bias_detections) ==
    IF bias_detections = << >> THEN 0
    ELSE Max(bias_detections[1].confidence, MaxConfidence(Tail(bias_detections)))

(***************************************************************************)
(* Highlighting                                                            *)
(***************************************************************************)

Digit(d) == <<"0","1","2","3","4","5","6","7","8","9">>[d + 1]

RECURSIVE IntChars(_)
IntChars(n) == IF n < 10 THEN <<Digit(n)>> ELSE IntChars(n \div 10) \o <<Digit(n % 10)>>

\* The decimals of f / ONE, without trailing zeros.
RECURSIVE FracChars(_)
FracChars(f) ==
    IF f = 0 THEN << >> ELSE <<Digit((f * 10) \div ONE)>> \o FracChars((f * 10) % ONE)

\* f"{confidence}": str() of a float.
FormatFloat(v) ==
    IntChars(v \div ONE) \o <<".">>
    \o (IF v % ONE = 0 THEN <<"0">> ELSE FracChars(v % ONE))

\* f"{confidence:.2f}"
FormatFloat2(v) ==
    LET r == (v * 100 + ONE \div 2) \div ONE
    IN  IntChars(r \div 100) \o <<".">> \o <<Digit((r % 100) \div 10), Digit(r % 10)>>

\* The opening tag the f-string of line 257 prints before the keyword.
SpanOpen(category, confidence) ==
    SpanStyle \o FormatFloat(confidence) \o SpanTitle \o CategoryChars(category)
    \o SpanConfidence \o FormatFloat2(confidence) \o SpanEnd

\* The f-string of line 257.
Highlight(keyword, category, confidence) ==
    SpanOpen(category, confidence) \o keyword \o SpanClose

\* The bias_positions list of lines 231-243.
BiasPositions(bias_detections) ==
    [i \in 1..Len(bias_detections) |->
        [start |-> bias_detections[i].position,
         end |-> bias_detections[i].position + Len(bias_detections[i].keyword),
         keyword |-> bias_detections[i].keyword,
         category |-> bias_detections[i].category,
         confidence |-> bias_detections[i].confidence]]

\* list.sort(key=start, reverse=True): descending by start, and stable, so
\* equal starts keep their order.
RECURSIVE SortByStartDesc(_, _)
SortByStartDesc(todo, done) ==
    IF todo = << >> THEN done
    ELSE LET b == todo[1]
             GE(x) == x.start >= b.start
             LT(x) == x.start < b.start
         IN  SortByStartDesc(Tail(todo),
                             SelectSeq(done, GE) \o <<b>> \o SelectSeq(done, LT))

\* The loop of lines 249-259.
RECURSIVE ApplyHighlights(_, _)
ApplyHighlights(highlighted_text, bias_positions) ==
    IF bias_positions = << >> THEN highlighted_text
    ELSE LET bias == bias_positions[1]
         IN  ApplyHighlights(
                 Slice(highlighted_text, 0, bias.start)
                 \o Highlight(bias.keyword, bias.category, bias.confidence)
                 \o Slice(highlighted_text, bias.end, Len(highlighted_text)),
                 Tail(bias_positions))

_highlight_biased_words(text, bias_detections) ==
    IF bias_detections = << >> THEN text
    ELSE ApplyHighlights(text, SortByStartDesc(BiasPositions(bias_detections), << >>))

(***************************************************************************)
(* detect_realtime_bias                                                    *)
(***************************************************************************)

\* The keyword of the "general_bias" category: None, which is no text.
NoneValue == <<"None">>

\* The handler's locals before it has run anything; invoked is the set of
\* pipeline steps the call has entered, ml_failed whether the classifier's
\* except clause (line 218) ran, escaped whether an exception reached the
\* except clause of line 352.
EmptyCall ==
    [lexicon_bias |-> << >>, ml_biased |-> FALSE, ml_confidence |-> 0,
     ml_failed |-> FALSE, invoked |-> {}, escaped |-> FALSE]

\* The steps of the try block in which an unexpected exception may be raised.
Faults == {"lexicon", "fusion", "highlight"}

\* BiasResult without processing_time_ms, which is wall-clock time.
BiasResult(is_biased, confidence, categories, highlighted_text, bias_score) ==
    [is_biased |-> is_biased, confidence |-> confidence, categories |-> categories,
     highlighted_text |-> highlighted_text, bias_score |-> bias_score]

\* Mutant of Categories: the description is not copied.
Categories_without_description(text, lexicon_bias, ml_biased, ml_confidence) ==
    [i \in 1..Len(lexicon_bias) |->
        [category |-> lexicon_bias[i].category,
         confidence |-> lexicon_bias[i].confidence,
         keyword |-> lexicon_bias[i].keyword,
         context |-> lexicon_bias[i].context,
         weight |-> lexicon_bias[i].weight]]

\* Step 6, lines 319-339.
Categories(text, lexicon_bias, ml_biased, ml_confidence) ==
    [i \in 1..Len(lexicon_bias) |->
        [category |-> lexicon_bias[i].category,
         description |-> lexicon_bias[i].description,
         confidence |-> lexicon_bias[i].confidence,
         keyword |-> lexicon_bias[i].keyword,
         context |-> lexicon_bias[i].context,
         weight |-> lexicon_bias[i].weight]]
    \o (IF ml_biased /\ lexicon_bias = << >>
        THEN << [category |-> "general_bias",
                 description |-> "General biased language detected by ML classifier",
                 confidence |-> ml_confidence,
                 keyword |-> NoneValue,
                 context |-> text,
                 weight |-> (5 * ONE) \div 10] >>
        ELSE << >>)

\* Mutant of IsEmptyText: the check for empty text is missing.
IsEmptyText_never(text) == FALSE

\* if not text, line 289.
IsEmptyText(text) == text = << >>

\* Mutant of OverallIsBiased: the classifier's verdict is ignored.
OverallIsBiased_lexicon_only(lexicon_bias, ml_biased) == lexicon_bias # << >>

\* Step 3, line 306.
OverallIsBiased(lexicon_bias, ml_biased) == lexicon_bias # << >> \/ ml_biased

\* Mutant of OverallConfidence: the classifier's confidence is ignored.
OverallConfidence_lexicon_only(lexicon_bias, ml_confidence) ==
    MaxConfidence(lexicon_bias)

\* Step 3, lines 307-310.
OverallConfidence(lexicon_bias, ml_confidence) ==
    Max(MaxConfidence(lexicon_bias), ml_confidence)

\* Steps 3 to 6 and the return, lines 305-350, given the locals that steps
\* 1 and 2 set; env.fault names the step that raises unexpectedly, if any.
CombineResults(text, lexicon_bias, ml, env) ==
    IF env.fault \in {"fusion", "highlight"}
    THEN [raised |-> TRUE, result |-> << >>, globals |-> ml.globals,
          call |-> [lexicon_bias |-> lexicon_bias, ml_biased |-> ml.is_biased,
                    ml_confidence |-> ml.confidence, ml_failed |-> ml.failed,
                    invoked |-> IF env.fault = "fusion"
                                THEN {"lexicon", "classifier", "fusion"}
                                ELSE {"lexicon", "classifier", "fusion", "highlight"},
                    escaped |-> FALSE]]
    ELSE [raised |-> FALSE,
          result |-> << BiasResult(
              OverallIsBiased(lexicon_bias, ml.is_biased),
              OverallConfidence(lexicon_bias, ml.confidence),
              Categories(text, lexicon_bias, ml.is_biased, ml.confidence),
              _highlight_biased_words(text, lexicon_bias),
              _calculate_overall_bias_score(lexicon_bias, ml.is_biased,
                                            ml.confidence)) >>,
          globals |-> ml.globals,
          call |-> [lexicon_bias |-> lexicon_bias, ml_biased |-> ml.is_biased,
                    ml_confidence |-> ml.confidence, ml_failed |-> ml.failed,
                    invoked |-> {"lexicon", "classifier", "fusion", "highlight"},
                    escaped |-> FALSE]]

\* Mutant of ScoreText: the classifier is loaded before the check for empty
\* text.
ScoreText_loads_first(text, g, env) ==
    IF IsEmptyText(text)
    THEN [raised |-> FALSE,
          result |-> << BiasResult(FALSE, 0, << >>, << >>, 0) >>,
          globals |-> _load_bias_pipeline(g, env.load).globals,
          call |-> [EmptyCall EXCEPT !.invoked = {"classifier"}]]
    ELSE IF env.fault = "lexicon"
    THEN [raised |-> TRUE, result |-> << >>, globals |-> g,
          call |-> [EmptyCall EXCEPT !.invoked = {"lexicon"}]]
    ELSE CombineResults(text, _fast_lexicon_filter(text),
                        _sentence_level_classification(g, env.load, env.predict), env)

\* Lines 289-303 on the stripped text: the short circuit on empty text, then
\* steps 1 and 2.
ScoreText(text, g, env) ==
    IF IsEmptyText(text)
    THEN [raised |-> FALSE,
          result |-> << BiasResult(FALSE, 0, << >>, << >>, 0) >>,
          globals |-> g, call |-> EmptyCall]
    ELSE IF env.fault = "lexicon"
    THEN [raised |-> TRUE, result |-> << >>, globals |-> g,
          call |-> [EmptyCall EXCEPT !.invoked = {"lexicon"}]]
    ELSE CombineResults(text, _fast_lexicon_filter(text),
                        _sentence_level_classification(g, env.load, env.predict), env)

\* The try block, lines 288-350: it returns a result or raises.
TryBlock(payload_text, g, env) == ScoreText(strip(payload_text), g, env)

\* The except clause, lines 352-361, around the outcome of the try block:
\* what the caller gets (a result, or an exception), the globals afterwards
\* and the locals of the call.
ExceptClause(payload_text, body) ==
    IF body.raised
    THEN [status |-> "returned",
          result |-> << BiasResult(FALSE, 0, << >>, payload_text, 0) >>,
          globals |-> body.globals,
          call |-> [body.call EXCEPT !.escaped = TRUE]]
    ELSE [status |-> "returned", result |-> body.result,
          globals |-> body.globals, call |-> body.call]

\* Mutant of detect_realtime_bias: there is no except clause, so what the
\* try block raises reaches the caller.
detect_realtime_bias_without_except(payload_text, g, env) ==
    LET propagate(body) ==
            IF body.raised
            THEN [status |-> "raised", result |-> << >>,
                  globals |-> body.globals, call |-> body.call]
            ELSE [status |-> "returned", result |-> body.result,
                  globals |-> body.globals, call |-> body.call]
    IN  propagate(TryBlock(payload_text, g, env))

\* The handler.
detect_realtime_bias(payload_text, g, env) ==
    ExceptClause(payload_text, TryBlock(payload_text, g, env))

(***************************************************************************)
(* Requests                                                                *)
(***************************************************************************)

\* The words request texts are made of: a gender keyword in mixed case that
\* holds a second keyword ("men"), an age keyword, a context phrase, a
\* keyword of two categories, a pejorative, and the two words of the keyword
\* "tend to", neither of which is a keyword.
Vocabulary ==
    { <<"W","o","m","e","n">>, <<"o","l","d">>, <<"t","o","o">>,
      <<"n","e","v","e","r">>, <<"s","t","u","p","i","d">>,
      <<"t","e","n","d">>, <<"t","o">> }

RECURSIVE WordLists(_)
WordLists(n) ==
    IF n = 0 THEN {<< >>}
    ELSE LET shorter == WordLists(n - 1)
         IN  shorter \cup {Append(ws, w) : ws \in shorter, w \in Vocabulary}

\* The request texts: up to MaxWords words joined by single blanks, as they
\* are or after a leading blank.
Inputs ==
    {pad \o join(ws) : pad \in {<< >>, <<" ">>}, ws \in WordLists(MaxWords)}

\* A text with a gender keyword and the negation "should not".
WomenShouldNotApply ==
    <<"w","o","m","e","n"," ","s","h","o","u","l","d"," ","n","o","t"," ",
      "a","p","p","l","y">>

\* Request texts beside the generated ones.
ScenarioTexts == {WomenShouldNotApply}

NoResponse == [status |-> "none", result |-> << >>]

\* The library outcomes and faults that make a difference in a call that
\* starts with globals g: predict is reached only with a trained pipeline,
\* and the classifier only if the lexicon scan did not raise.
Envs(g, faults) ==
    LET unreached == CHOOSE q \in PredictOutcomes : q.raises
        early == faults \cap {"lexicon"}
        loads == IF g.bias_pipeline = "None" THEN LoadOutcomes ELSE {"ok"}
    IN  {[load |-> "ok", predict |-> unreached, fault |-> f] : f \in early}
        \cup
        {[load |-> l, predict |-> p, fault |-> f] :
            l \in {m \in loads : g.bias_pipeline = "untrained" \/ m # "ok"},
            p \in {unreached}, f \in faults \ early}
        \cup
        {[load |-> l, predict |-> p, fault |-> f] :
            l \in {m \in loads : g.bias_pipeline # "untrained" /\ m = "ok"},
            p \in PredictOutcomes, f \in faults \ early}

\* The request threads of the worker pool.
Threads == {"t1", "t2"}

\* No thread is in a call; no object exists yet.
ThreadsIdle ==
    /\ thread = [t \in Threads |->
                    [pc |-> "idle", pipeline |-> "None", fitting |-> "None",
                     outcome |-> "none"]]
    /\ refs = [bias_pipeline |-> "None", vectorizer |-> "None", classifier |-> "None"]
    /\ heap = [vectorizers |-> [t \in Threads |-> "absent"],
               classifiers |-> [t \in Threads |-> "absent"],
               pipelines |-> [t \in Threads |-> <<"None", "None">>],
               fits |-> 0]

\* No batch request is being served.
NoBatch ==
    [pc |-> "idle", texts |-> << >>, results |-> << >>, seen |-> << >>,
     response |-> [results |-> << >>, total_processed |-> 0]]

\* No sentiment request has been served.
NoSentiment ==
    [pc |-> "idle", outcome |-> [raises |-> FALSE, compound |-> 0],
     response |-> [result |-> << >>]]

\* No call of the auth, users or admin routers has been made.
NoCall == [op |-> "none", status |-> 0, user |-> 0, target |-> 0]

\* An empty users table and no token.
AuthIdle ==
    /\ users = {}
    /\ tokens = {}
    /\ api = NoCall
    /\ revoked = {}
    /\ pending = {}

\* The client addresses login requests come from.
Clients == {"10.0.0.1", "10.0.0.2"}

\* The limiter of a fresh process: request_counts = {} (line 94), minute 0,
\* no login sent.
NoLimiter ==
    [request_counts |-> {}, minute |-> 0, sent |-> [c \in Clients |-> 0],
     last |-> [client |-> "none", nth |-> 0, status |-> 0, reached |-> FALSE]]

\* No session, no transcript item, no request yet.
NoStore ==
    [sessions |-> {}, transcripts |-> {},
     last |-> [op |-> "none", caller |-> 0, session_id |-> 0, status |-> 0,
               content |-> {}]]

\* No unified-analysis request is being answered and nothing is tracked.
NoAnalysis ==
    [pc |-> "idle", op |-> "none", caller |-> 0, text |-> << >>, status |-> 0,
     detail |-> "none", body |-> << >>,
     tracked |-> [u \in 1..2 |-> << >>]]

\* No distribution is being computed.
NoSelection ==
    [pc |-> "idle", num_questions |-> 0, difficulties |-> << >>,
     distribution |-> << >>]

\* No /ai bias request is being answered.
NoAi == [pc |-> "idle", op |-> "none", text |-> << >>, response |-> << >>]

Init ==
    /\ ThreadsIdle
    /\ selection = NoSelection
    /\ ai = NoAi
    /\ flagged_detections = << >>
    /\ analysis = NoAnalysis
    /\ store = NoStore
    /\ limiter = NoLimiter
    /\ batch = NoBatch
    /\ sentiment = NoSentiment
    /\ AuthIdle
    /\ bias_pipeline = "None"
    /\ vectorizer = "None"
    /\ classifier = "None"
    /\ train_count = 0
    /\ pc = "idle"
    /\ payload = << >>
    /\ response = NoResponse
    /\ call = EmptyCall
    /\ only_empty_calls = TRUE

\* A client posts a text to /detect-realtime.
Request(text) ==
    /\ pc = "idle"
    /\ pc' = "received"
    /\ payload' = text
    /\ UNCHANGED <<bias_pipeline, vectorizer, classifier, train_count, response, call,
                   only_empty_calls>>
    /\ UNCHANGED beside_scorer

\* The handler runs on the request.
Handle(env) ==
    /\ pc = "received"
    /\ \E out \in {detect_realtime_bias(payload, globals, env)} :
           /\ bias_pipeline' = out.globals.bias_pipeline
           /\ vectorizer' = out.globals.vectorizer
           /\ classifier' = out.globals.classifier
           /\ train_count' = out.globals.train_count
           /\ response' = [status |-> out.status, result |-> out.result]
           /\ call' = out.call
    /\ pc' = "responded"
    /\ only_empty_calls' = (only_empty_calls /\ payload = << >>)
    /\ UNCHANGED payload
    /\ UNCHANGED beside_scorer

\* The response has gone to the client and the request is over.
Deliver ==
    /\ pc = "responded"
    /\ pc' = "idle"
    /\ payload' = << >>
    /\ response' = NoResponse
    /\ call' = EmptyCall
    /\ UNCHANGED <<bias_pipeline, vectorizer, classifier, train_count, only_empty_calls>>
    /\ UNCHANGED beside_scorer

SendRequest == \E text \in Inputs \cup ScenarioTexts : Request(text)

\* The steps of the try block are string and list operations on a str: none
\* of them raises, and only the library calls of the classifier can fail.
HandleRequest == \E env \in Envs(globals, {"none"}) : Handle(env)

\* The handler when any step of the try block may raise unexpectedly.
HandleRequestFault == \E env \in Envs(globals, Faults \cup {"none"}) : Handle(env)

Next == SendRequest \/ HandleRequest \/ Deliver

NextFault == SendRequest \/ HandleRequestFault \/ Deliver

Spec == Init /\ [][Next]_vars

SpecFault == Init /\ [][NextFault]_vars

Responded == pc = "responded" /\ response.status = "returned"

(***************************************************************************)
(* Concurrent scoring.  detect_realtime_bias is a plain def, so the server *)
(* runs each request on a thread of its worker pool; the threads share the *)
(* module globals with no lock.  Each step below is one read or write of a *)
(* global, or one part of a library call, named by its source line.        *)
(***************************************************************************)

\* A thread takes a request with a non-empty text and reaches step 2 of the
\* handler (line 303), which calls _sentence_level_classification.
Call(t) ==
    /\ thread[t].pc = "idle"
    /\ thread' = [thread EXCEPT ![t] = [pc |-> "L84", pipeline |-> "None",
                                        fitting |-> "None", outcome |-> "none"]]
    /\ UNCHANGED <<refs, heap>>

\* Line 84: if bias_pipeline is None.
CheckNone(t) ==
    /\ thread[t].pc = "L84"
    /\ thread' = [thread EXCEPT ![t].pc =
                      IF refs.bias_pipeline = "None" THEN "L87" ELSE "L109"]
    /\ UNCHANGED <<refs, heap>>

\* Lines 87-92: vectorizer = TfidfVectorizer(...), a new unfitted object.
NewVectorizer(t) ==
    /\ thread[t].pc = "L87"
    /\ heap' = [heap EXCEPT !.vectorizers[t] = "unfitted"]
    /\ refs' = [refs EXCEPT !.vectorizer = t]
    /\ thread' = [thread EXCEPT ![t].pc = "L93"]

\* Line 93: classifier = MultinomialNB(alpha=0.1), a new unfitted object.
NewClassifier(t) ==
    /\ thread[t].pc = "L93"
    /\ heap' = [heap EXCEPT !.classifiers[t] = "unfitted"]
    /\ refs' = [refs EXCEPT !.classifier = t]
    /\ thread' = [thread EXCEPT ![t].pc = "L96"]

\* Lines 96-99: bias_pipeline = Pipeline([...]) over whatever the globals
\* vectorizer and classifier refer to now.
Publish(t) ==
    /\ thread[t].pc = "L96"
    /\ heap' = [heap EXCEPT !.pipelines[t] = <<refs.vectorizer, refs.classifier>>]
    /\ refs' = [refs EXCEPT !.bias_pipeline = t]
    /\ thread' = [thread EXCEPT ![t].pc = "L157"]

\* An estimator when a fit of it begins: a fitted one is being overwritten.
BeginFit(state) == IF state = "unfitted" THEN "unfitted" ELSE "refitting"

\* Line 157: bias_pipeline.fit(X, y) reads the global and starts fitting the
\* pipeline's first step, the vectorizer.
FitBegin(t) ==
    /\ thread[t].pc = "L157"
    /\ LET v == heap.pipelines[refs.bias_pipeline][1]
       IN  heap' = [heap EXCEPT !.vectorizers[v] = BeginFit(@)]
    /\ thread' = [thread EXCEPT ![t].pc = "fit_tfidf", ![t].fitting = refs.bias_pipeline]
    /\ UNCHANGED refs

\* Inside fit: the vectorizer has its vocabulary; the classifier is next.
FitVectorizer(t) ==
    /\ thread[t].pc = "fit_tfidf"
    /\ LET v == heap.pipelines[thread[t].fitting][1]
           c == heap.pipelines[thread[t].fitting][2]
       IN  heap' = [heap EXCEPT !.vectorizers[v] = "fitted",
                                !.classifiers[c] = BeginFit(@)]
    /\ thread' = [thread EXCEPT ![t].pc = "fit_nb"]
    /\ UNCHANGED refs

\* Inside fit: the classifier is fitted and fit returns (line 158).
FitClassifier(t) ==
    /\ thread[t].pc = "fit_nb"
    /\ LET c == heap.pipelines[thread[t].fitting][2]
       IN  heap' = [heap EXCEPT !.classifiers[c] = "fitted", !.fits = @ + 1]
    /\ thread' = [thread EXCEPT ![t].pc = "L109"]
    /\ UNCHANGED refs

\* Line 109: return bias_pipeline, bound to the local pipeline at line 210.
ReturnPipeline(t) ==
    /\ thread[t].pc = "L109"
    /\ thread' = [thread EXCEPT ![t].pc = "L211", ![t].pipeline = refs.bias_pipeline]
    /\ UNCHANGED <<refs, heap>>

\* What predict and predict_proba can do on a pipeline: an unfitted step
\* raises NotFittedError, and a step that another thread is overwriting may
\* be read in either state.
PredictResults(p) ==
    LET v == heap.vectorizers[heap.pipelines[p][1]]
        c == heap.classifiers[heap.pipelines[p][2]]
    IN  (IF "unfitted" \in {v, c} THEN {} ELSE {"classified"})
        \cup (IF {v, c} \cap {"unfitted", "refitting"} = {} THEN {} ELSE {"degraded"})

\* Lines 211-219: the two predictions; an exception is caught at line 218
\* and the call continues with (False, 0.0).
Predict(t) ==
    /\ thread[t].pc = "L211"
    /\ \E r \in PredictResults(thread[t].pipeline) :
           thread' = [thread EXCEPT ![t].pc = "returned", ![t].outcome = r]
    /\ UNCHANGED <<refs, heap>>

\* The rest of the handler touches no shared state; the response goes out.
Return(t) ==
    /\ thread[t].pc = "returned"
    /\ thread' = [thread EXCEPT ![t].pc = "idle"]
    /\ UNCHANGED <<refs, heap>>

ThreadStep(t) ==
    \/ Call(t)
    \/ CheckNone(t)
    \/ NewVectorizer(t)
    \/ NewClassifier(t)
    \/ Publish(t)
    \/ FitBegin(t)
    \/ FitVectorizer(t)
    \/ FitClassifier(t)
    \/ ReturnPipeline(t)
    \/ Predict(t)
    \/ Return(t)

NextThreads ==
    (\E t \in Threads : ThreadStep(t))
    /\ UNCHANGED <<scorer_vars, batch, sentiment, auth_vars, limiter, store, unified_vars, selection, ai>>

SpecThreads == Init /\ [][NextThreads]_vars

Result == response.result[1]

(***************************************************************************)
(* Properties                                                              *)
(***************************************************************************)

\* The text the pipeline scores: payload.text stripped.
Text == strip(payload)

\* k occurs in s as a contiguous substring.
Occurs(k, s) == \E i \in 1..(Len(s) - Len(k) + 1) : SubSeq(s, i, i + Len(k) - 1) = k

\* The entry of the category table for a category label.
ConfigOf(category) ==
    BIAS_CATEGORIES[CHOOSE c \in 1..Len(BIAS_CATEGORIES) :
                        BIAS_CATEGORIES[c].category = category]

ZeroResult(highlighted_text) ==
    [is_biased |-> FALSE, confidence |-> 0, categories |-> << >>,
     highlighted_text |-> highlighted_text, bias_score |-> 0]

\* C1: detect_realtime_bias never raises to its caller: every call returns
\* a BiasResult, and when an exception escaped a step the result is not
\* biased, with confidence 0.0, bias_score 0.0, no categories and the
\* unmodified payload text as highlighted_text.
C1_NeverRaises ==
    pc = "responded" =>
        /\ response.status = "returned"
        /\ Len(response.result) = 1
        /\ call.escaped => Result = ZeroResult(payload)

\* C1 witness: highlighting raised after the lexicon scan had found
\* detections in a text with a leading blank, and the call returned.
C1_Witness ==
    /\ Responded
    /\ call.escaped
    /\ "highlight" \in call.invoked
    /\ call.lexicon_bias # << >>
    /\ payload # Text

\* C2: for a non-empty text, is_biased is true iff the lexicon filter
\* produced at least one detection or the classifier flagged the text.
C2_IsBiasedIff ==
    (Responded /\ payload # << >>) =>
        (Result.is_biased <=> (Len(call.lexicon_bias) >= 1 \/ call.ml_biased))

\* C2 witness: a call without detections that the classifier alone flagged.
C2_Witness ==
    /\ Responded
    /\ Text # << >>
    /\ call.lexicon_bias = << >>
    /\ call.ml_biased
    /\ Result.is_biased

\* The mean over the detections of weight * confidence.
RECURSIVE SumOfProducts(_, _)
SumOfProducts(ds, n) ==
    IF n = 0 THEN 0 ELSE SumOfProducts(ds, n - 1) + (ds[n].weight * ds[n].confidence) \div ONE

LexiconComponent(ds) ==
    IF Len(ds) = 0 THEN 0
    ELSE LET mean == SumOfProducts(ds, Len(ds)) \div Len(ds)
         IN  IF mean > ONE THEN ONE ELSE mean

MlComponent(ml_biased, ml_confidence) == IF ml_biased THEN ml_confidence ELSE 0

\* C3: bias_score = 0.7 * lexicon_component + 0.3 * ml_component, with
\* lexicon_component the mean of weight * confidence over the detections
\* capped at 1.0 (0 without detections) and ml_component the classifier's
\* confidence if it flagged the text, else 0.
C3_FusionFormula ==
    (Responded /\ "fusion" \in call.invoked /\ ~call.escaped) =>
        Result.bias_score =
            (7 * LexiconComponent(call.lexicon_bias)) \div 10
            + (3 * MlComponent(call.ml_biased, call.ml_confidence)) \div 10

\* C3 witness: detections of two different weights, and the classifier
\* flagged the text.
C3_Witness ==
    /\ Responded
    /\ call.ml_biased
    /\ \E i, j \in 1..Len(call.lexicon_bias) :
           call.lexicon_bias[i].weight # call.lexicon_bias[j].weight
    /\ Result.bias_score > 0

\* C4: bias_score of every returned result lies in [0.0, 1.0].
C4_ScoreInRange ==
    Responded => (0 <= Result.bias_score /\ Result.bias_score <= ONE)

\* C4 witness: a result whose bias_score is exactly 1.0.
C4_Witness == Responded /\ Result.bias_score = ONE /\ call.lexicon_bias # << >>

\* C5: for a non-empty text, the overall confidence is the maximum over the
\* detections' confidences and the classifier's confidence.
C5_ConfidenceIsMax ==
    (Responded /\ payload # << >> /\ ~call.escaped) =>
        LET cs == {call.lexicon_bias[i].confidence : i \in 1..Len(call.lexicon_bias)}
                  \cup {call.ml_confidence}
        IN  /\ Result.confidence \in cs
            /\ \A c \in cs : c <= Result.confidence

\* C5 witness: the classifier did not flag the text and its confidence
\* exceeds that of every detection.
C5_Witness ==
    /\ Responded
    /\ call.lexicon_bias # << >>
    /\ ~call.ml_biased
    /\ \A i \in 1..Len(call.lexicon_bias) :
           call.lexicon_bias[i].confidence < call.ml_confidence
    /\ Result.confidence = call.ml_confidence

\* C6: a detection of gender_bias or age_bias has confidence 1.0 if one of
\* its category's context phrases occurs in the lower-cased text and 0.7
\* otherwise; a detection of any other category has confidence 0.9; every
\* detection carries its category's weight.
C6_DetectionConfidence ==
    (Responded /\ "lexicon" \in call.invoked) =>
        \A i \in 1..Len(call.lexicon_bias) :
            LET d == call.lexicon_bias[i]
                config == ConfigOf(d.category)
            IN  /\ d.weight = config.weight
                /\ d.confidence =
                     IF d.category \in {"gender_bias", "age_bias"}
                     THEN IF \E c \in 1..Len(config.contexts) :
                                 Occurs(config.contexts[c], lower(Text))
                          THEN ONE ELSE (7 * ONE) \div 10
                     ELSE (9 * ONE) \div 10

\* C6 witness: one text with a gender_bias detection of confidence 0.7 and
\* the pejorative "stupid" with weight 1.0 and confidence 0.9.
C6_Witness ==
    /\ Responded
    /\ \E i, j \in 1..Len(call.lexicon_bias) :
          /\ call.lexicon_bias[i].category = "gender_bias"
          /\ call.lexicon_bias[i].confidence = (7 * ONE) \div 10
          /\ call.lexicon_bias[j].category = "pejorative"
          /\ call.lexicon_bias[j].keyword = <<"s","t","u","p","i","d">>
          /\ call.lexicon_bias[j].weight = ONE
          /\ call.lexicon_bias[j].confidence = (9 * ONE) \div 10

\* C7: the lexicon filter produces exactly one detection for each
\* (category, keyword) pair whose keyword occurs in the lower-cased text,
\* and none for any other pair.
C7_OneDetectionPerPair ==
    (Responded /\ "lexicon" \in call.invoked) =>
        \A c \in 1..Len(BIAS_CATEGORIES) :
            \A k \in 1..Len(BIAS_CATEGORIES[c].keywords) :
                Cardinality({i \in 1..Len(call.lexicon_bias) :
                                /\ call.lexicon_bias[i].category = BIAS_CATEGORIES[c].category
                                /\ call.lexicon_bias[i].keyword = BIAS_CATEGORIES[c].keywords[k]})
                = IF Occurs(BIAS_CATEGORIES[c].keywords[k], lower(Text)) THEN 1 ELSE 0

\* Every opening tag the highlighter can insert.
OpenMarkers ==
    {SpanOpen(BIAS_CATEGORIES[c].category, conf) :
        c \in 1..Len(BIAS_CATEGORIES),
        conf \in {ONE, (9 * ONE) \div 10, (7 * ONE) \div 10}}

Markers == OpenMarkers \cup {SpanClose}

MarkerAt(s, i, m) ==
    /\ i + Len(m) - 1 <= Len(s)
    /\ \A j \in 1..Len(m) : s[i + j - 1] = m[j]

\* The length of the marker that starts at offset i of s, or 0.  A marker
\* starts with the only "<" it holds, so no two occurrences overlap.
MarkerLen(s, i) ==
    IF \E m \in Markers : MarkerAt(s, i, m)
    THEN Len(CHOOSE m \in Markers : MarkerAt(s, i, m))
    ELSE 0

\* s with every marker that occurs in it removed.
StripMarkers(s) ==
    LET starts == {i \in 1..Len(s) : s[i] = "<" /\ MarkerLen(s, i) > 0}
        removed == UNION {i..(i + MarkerLen(s, i) - 1) : i \in starts}
        Kept(i) == i \notin removed
        kept == SelectSeq([i \in 1..Len(s) |-> i], Kept)
    IN  [n \in 1..Len(kept) |-> s[kept[n]]]

\* C8: removing every inserted marker from highlighted_text yields the text
\* that was highlighted (the input, after the handler's strip()).
C8_HighlightRoundTrip ==
    (Responded /\ ~call.escaped) => StripMarkers(Result.highlighted_text) = Text

\* C9: for the empty string the result is not biased, with confidence 0.0,
\* bias_score 0.0, no categories and an empty highlighted_text.
C9_EmptyInput ==
    (Responded /\ payload = << >>) => Result = ZeroResult(<< >>)

\* C9 witness: a call with the empty string has returned.
C9_Witness == Responded /\ payload = << >> /\ Result.highlighted_text = << >>

Uninitialised ==
    /\ bias_pipeline = "None"
    /\ vectorizer = "None"
    /\ classifier = "None"
    /\ train_count = 0

\* C10: a call with empty input enters no step of the pipeline and leaves
\* the module globals as they were; while every call so far had empty
\* input, the pipeline is uninitialised and nothing was trained.
C10_EmptyCallFrame ==
    /\ [](only_empty_calls => Uninitialised)
    /\ [][(pc = "received" /\ payload = << >> /\ pc' = "responded") =>
             /\ call'.invoked = {}
             /\ UNCHANGED <<bias_pipeline, vectorizer, classifier, train_count>>]_vars

\* C10 witness: an empty-input call has returned after nothing but
\* empty-input calls.
C10_Witness ==
    /\ Responded
    /\ payload = << >>
    /\ only_empty_calls
    /\ call.invoked = {}
    /\ bias_pipeline = "None"

\* C12: after a call in which initialisation failed, the module global does
\* not refer to an untrained pipeline, so a later call initialises again.
C12_InitRepeatable ==
    pc = "responded" => bias_pipeline # "untrained"

\* C14: when the classifier fails it yields (False, 0.0), and the result is
\* computed from the detections alone: is_biased iff there is a detection,
\* confidence the largest detection confidence (0.0 if none), bias_score 0.7
\* times the lexicon component.
C14_DegradedToLexicon ==
    (Responded /\ call.ml_failed) =>
        /\ ~call.ml_biased
        /\ call.ml_confidence = 0
        /\ Result.is_biased <=> (Len(call.lexicon_bias) >= 1)
        /\ \A i \in 1..Len(call.lexicon_bias) :
               call.lexicon_bias[i].confidence <= Result.confidence
        /\ \/ Result.confidence = 0 /\ call.lexicon_bias = << >>
           \/ \E i \in 1..Len(call.lexicon_bias) :
                  call.lexicon_bias[i].confidence = Result.confidence
        /\ Result.bias_score = (7 * LexiconComponent(call.lexicon_bias)) \div 10

\* C14 witness: the classifier failed in a call that had detections.
C14_Witness ==
    /\ Responded
    /\ call.ml_failed
    /\ call.lexicon_bias # << >>
    /\ Result.is_biased
    /\ Result.bias_score > 0

\* The detections of gender_bias for the keyword "women".
WomenDetections ==
    {i \in 1..Len(call.lexicon_bias) :
        /\ call.lexicon_bias[i].category = "gender_bias"
        /\ call.lexicon_bias[i].keyword = <<"w","o","m","e","n">>}

\* C17 as claimed: for "women should not apply" the gender_bias detection of
\* "women" has confidence exactly 1.0.
C17_ShouldNotIsContext ==
    (Responded /\ payload = WomenShouldNotApply) =>
        \E i \in WomenDetections : call.lexicon_bias[i].confidence = ONE

\* C17 as amended: for "women should not apply" there is a gender_bias
\* detection of "women", and its confidence is exactly 0.7: none of the
\* category's context phrases occurs in the text.
C17_ShouldNotIsNoContext ==
    (Responded /\ payload = WomenShouldNotApply) =>
        /\ WomenDetections # {}
        /\ \A i \in WomenDetections :
               call.lexicon_bias[i].confidence = (7 * ONE) \div 10

\* C17 witness: the text was scored and "women" was detected.
C17_Witness ==
    /\ Responded
    /\ payload = WomenShouldNotApply
    /\ WomenDetections # {}

\* The entries of the categories field that come from lexicon detections.
LexiconEntries == {i \in 1..Len(Result.categories) : i <= Len(call.lexicon_bias)}

\* C19 as claimed: every lexicon detection in the categories field carries
\* category, keyword, position, context, weight, confidence and description.
C19_SevenFields ==
    (Responded /\ ~call.escaped) =>
        \A i \in LexiconEntries :
            DOMAIN Result.categories[i] =
                {"category", "keyword", "position", "context", "weight",
                 "confidence", "description"}

\* C19 as amended: every lexicon detection in the categories field carries
\* the six fields category, keyword, context, weight, confidence and
\* description of its detection, and no position.
C19_SixFields ==
    (Responded /\ ~call.escaped) =>
        /\ Len(Result.categories) >= Len(call.lexicon_bias)
        /\ \A i \in LexiconEntries :
              /\ DOMAIN Result.categories[i] =
                     {"category", "keyword", "context", "weight", "confidence",
                      "description"}
              /\ \A f \in DOMAIN Result.categories[i] :
                     Result.categories[i][f] = call.lexicon_bias[i][f]

\* C19 witness: a result with two lexicon detections in categories.
C19_Witness ==
    /\ Responded
    /\ Len(call.lexicon_bias) >= 2
    /\ Len(Result.categories) = Len(call.lexicon_bias)

(***************************************************************************)
(* /batch-detect, lines 371-387                                            *)
(***************************************************************************)

\* Bounds of the batch: its length and the texts it is made of.
MaxBatch == 2

BatchTexts ==
    {<< >>, <<"W","o","m","e","n">>, <<"n","e","v","e","r">>, <<"t","o","o">>}

RECURSIVE Batches(_)
Batches(n) ==
    IF n = 0 THEN {<< >>}
    ELSE LET shorter == Batches(n - 1)
         IN  shorter \cup {Append(ts, t) : ts \in shorter, t \in BatchTexts}

\* Mutant of AppendResult: the new entry goes to the front of the list.
AppendResult_at_front(results, text, result) ==
    <<[text |-> text, result |-> result]>> \o results

\* Lines 379-382: results.append({"text": text, "result": result.dict()}).
AppendResult(results, text, result) ==
    Append(results, [text |-> text, result |-> result])

\* A client posts a list of texts; results = [] (line 374).
BatchRequest(texts) ==
    /\ batch.pc = "idle"
    /\ batch' = [NoBatch EXCEPT !.pc = "looping", !.texts = texts]
    /\ UNCHANGED <<scorer_vars, thread_vars, sentiment, auth_vars, limiter, store, unified_vars, selection, ai>>

\* One iteration of the for loop (lines 376-382): the handler is called on
\* the next text; seen records the globals and the library behaviour the
\* iteration met.
BatchIterate(env) ==
    /\ batch.pc = "looping"
    /\ Len(batch.seen) < Len(batch.texts)
    /\ LET text == batch.texts[Len(batch.seen) + 1]
       IN  \E out \in {detect_realtime_bias(text, globals, env)} :
               /\ bias_pipeline' = out.globals.bias_pipeline
               /\ vectorizer' = out.globals.vectorizer
               /\ classifier' = out.globals.classifier
               /\ train_count' = out.globals.train_count
               /\ batch' = [batch EXCEPT
                               !.results = AppendResult(@, text, out.result[1]),
                               !.seen = Append(@, [globals |-> globals, env |-> env])]
    /\ UNCHANGED <<request_vars, thread_vars, sentiment, auth_vars, limiter, store, unified_vars, selection, ai>>

\* Lines 384-387: the loop is over and the response is returned.
BatchReturn ==
    /\ batch.pc = "looping"
    /\ Len(batch.seen) = Len(batch.texts)
    /\ batch' = [batch EXCEPT
                    !.pc = "returned",
                    !.response = [results |-> batch.results,
                                  total_processed |-> Len(batch.texts)]]
    /\ UNCHANGED <<scorer_vars, thread_vars, sentiment, auth_vars, limiter, store, unified_vars, selection, ai>>

\* The response has gone to the client.
BatchDeliver ==
    /\ batch.pc = "returned"
    /\ batch' = NoBatch
    /\ UNCHANGED <<scorer_vars, thread_vars, sentiment, auth_vars, limiter, store, unified_vars, selection, ai>>

BatchSend == \E texts \in Batches(MaxBatch) : BatchRequest(texts)

BatchLoop == \E env \in Envs(globals, {"none"}) : BatchIterate(env)

NextBatch == BatchSend \/ BatchLoop \/ BatchReturn \/ BatchDeliver

SpecBatch == Init /\ [][NextBatch]_vars

(***************************************************************************)
(* /ai/sentiment, ai.py lines 182-212.  The VADER analyzer is a library:   *)
(* its compound score, which it rounds to four decimals, is an input.      *)
(***************************************************************************)

\* What analyzer.polarity_scores (or loading the analyzer) does.
AnalyzerOutcomes ==
    {[raises |-> TRUE, compound |-> 0]}
    \cup {[raises |-> FALSE, compound |-> c] : c \in (0 - ONE)..ONE}

\* Mutant of analyze_sentiment: the comparisons of lines 190 and 193 are
\* strict.
analyze_sentiment_strict(outcome) ==
    LET compound_score == outcome.compound
        scores == [compound |-> compound_score]
    IN  IF outcome.raises
        THEN [result |-> <<[label |-> "NEUTRAL", score |-> (5 * ONE) \div 10,
                            error |-> "str(e)"]>>]
        ELSE IF compound_score > (5 * ONE) \div 100
        THEN [result |-> <<[label |-> "POSITIVE", score |-> compound_score,
                            vader_scores |-> scores]>>]
        ELSE IF compound_score < 0 - (5 * ONE) \div 100
        THEN [result |-> <<[label |-> "NEGATIVE", score |-> 0 - compound_score,
                            vader_scores |-> scores]>>]
        ELSE [result |-> <<[label |-> "NEUTRAL", score |-> (5 * ONE) \div 10,
                            vader_scores |-> scores]>>]

\* analyze_sentiment, lines 183-212; of the VADER scores only compound is
\* kept.
analyze_sentiment(outcome) ==
    LET compound_score == outcome.compound
        scores == [compound |-> compound_score]
    IN  IF outcome.raises
        THEN [result |-> <<[label |-> "NEUTRAL", score |-> (5 * ONE) \div 10,
                            error |-> "str(e)"]>>]
        ELSE IF compound_score >= (5 * ONE) \div 100
        THEN [result |-> <<[label |-> "POSITIVE", score |-> compound_score,
                            vader_scores |-> scores]>>]
        ELSE IF compound_score <= 0 - (5 * ONE) \div 100
        THEN [result |-> <<[label |-> "NEGATIVE", score |-> 0 - compound_score,
                            vader_scores |-> scores]>>]
        ELSE [result |-> <<[label |-> "NEUTRAL", score |-> (5 * ONE) \div 10,
                            vader_scores |-> scores]>>]

\* A client posts a text to /ai/sentiment.
AnalyzeSentiment ==
    /\ sentiment.pc = "idle"
    /\ \E outcome \in AnalyzerOutcomes :
           sentiment' = [pc |-> "responded", outcome |-> outcome,
                         response |-> analyze_sentiment(outcome)]
    /\ UNCHANGED <<scorer_vars, thread_vars, batch, auth_vars, limiter, store, unified_vars, selection, ai>>

\* The response has gone to the client.
SentimentDeliver ==
    /\ sentiment.pc = "responded"
    /\ sentiment' = NoSentiment
    /\ UNCHANGED <<scorer_vars, thread_vars, batch, auth_vars, limiter, store, unified_vars, selection, ai>>

NextSentiment == AnalyzeSentiment \/ SentimentDeliver

SpecSentiment == Init /\ [][NextSentiment]_vars

(***************************************************************************)
(* Accounts: routers/auth.py, routers/users.py, routers/admin.py and       *)
(* security.py.  A row of the users table is [id, email, is_approved,      *)
(* role]; a token is the claim [sub] of a signed, unexpired JWT.  Whether  *)
(* a password matches the stored hash is an input of the login.            *)
(***************************************************************************)

\* The largest user id the table hands out.
MaxUserId == 2

UserIds == 1..MaxUserId

Emails == {"a@example.com", "b@example.com"}

\* The role a signup may ask for; "None" is an absent field.
RequestedRoles == {"None", "Admin", "Candidate"}

\* Python's None where a user row is expected.
NoUser == [id |-> 0, email |-> "None", is_approved |-> FALSE, role |-> "None"]

\* The bearer tokens a client may present; sub 0 stands for a missing,
\* forged or malformed token.
Bearers == {[sub |-> i] : i \in UserIds \cup {0}}

\* db.query(models.User).filter(models.User.email == email).first()
UserByEmail(db, email) ==
    IF \E u \in db : u.email = email
    THEN CHOOSE u \in db : u.email = email
    ELSE NoUser

\* db.query(models.User).get(user_id)
UserById(db, user_id) ==
    IF \E u \in db : u.id = user_id
    THEN CHOOSE u \in db : u.id = user_id
    ELSE NoUser

\* The id of a new row: the integer primary key of the default SQLite
\* database is one more than the largest id in the table.
NewId(db) ==
    IF db = {} THEN 1
    ELSE (CHOOSE i \in {u.id : u \in db} : \A u \in db : u.id <= i) + 1

\* authenticate_user, auth.py lines 18-26.
authenticate_user(db, email, password_ok) ==
    LET user == UserByEmail(db, email)
    IN  IF user = NoUser THEN NoUser
        ELSE IF ~password_ok THEN NoUser
        ELSE IF ~user.is_approved THEN NoUser
        ELSE user

\* Mutant of get_current_user: a user who is not approved is refused.
get_current_user_checks_approval(db, valid, token) ==
    LET user == UserById(db, token.sub)
    IN  IF token \notin valid THEN [status |-> 401, user |-> NoUser]
        ELSE IF user = NoUser \/ ~user.is_approved
        THEN [status |-> 401, user |-> NoUser]
        ELSE [status |-> 200, user |-> user]

\* get_current_user, security.py lines 84-103: the token must decode, and
\* the user named by sub must exist.
get_current_user(db, valid, token) ==
    LET user == UserById(db, token.sub)
    IN  IF token \notin valid THEN [status |-> 401, user |-> NoUser]
        ELSE IF user = NoUser THEN [status |-> 401, user |-> NoUser]
        ELSE [status |-> 200, user |-> user]

\* require_admin, admin.py lines 13-17.
require_admin(db, valid, token) ==
    LET current == get_current_user(db, valid, token)
    IN  IF current.status # 200 THEN current
        ELSE IF current.user.role # "Admin" THEN [status |-> 403, user |-> current.user]
        ELSE current

Respond(op, status, user, target) ==
    [op |-> op, status |-> status, user |-> user, target |-> target]

\* POST /auth/signup, auth.py lines 29-46.
signup(email, role) ==
    /\ \/ UserByEmail(users, email) # NoUser
       \/ NewId(users) <= MaxUserId
    /\ IF UserByEmail(users, email) # NoUser
       THEN /\ api' = Respond("signup", 400, 0, 0)
            /\ UNCHANGED users
       ELSE /\ users' = users \cup
                    {[id |-> NewId(users), email |-> email, is_approved |-> FALSE,
                      role |-> IF role = "None" THEN "Candidate" ELSE role]}
            /\ api' = Respond("signup", 200, 0, NewId(users))
    /\ UNCHANGED <<tokens, revoked>>

\* POST /auth/create-admin-dev, auth.py lines 97-151; no caller is
\* authenticated.
create_admin_dev(email) ==
    LET existing_admin == UserByEmail(users, email)
    IN  /\ existing_admin # NoUser \/ NewId(users) <= MaxUserId
        /\ IF existing_admin # NoUser
           THEN /\ users' = (users \ {existing_admin}) \cup
                        {[existing_admin EXCEPT !.role = "Admin", !.is_approved = TRUE]}
                /\ api' = Respond("create_admin_dev", 200, 0, existing_admin.id)
                /\ revoked' = revoked \ {existing_admin.id}
           ELSE /\ users' = users \cup
                        {[id |-> NewId(users), email |-> email, is_approved |-> TRUE,
                          role |-> "Admin"]}
                /\ api' = Respond("create_admin_dev", 200, 0, NewId(users))
                /\ UNCHANGED revoked
        /\ UNCHANGED tokens

\* POST /auth/login and /auth/login-json, auth.py lines 49-75.
login(email, password_ok) ==
    LET user == authenticate_user(users, email, password_ok)
    IN  /\ IF user = NoUser
           THEN /\ api' = Respond("login", 401, 0, 0)
                /\ UNCHANGED tokens
           ELSE /\ tokens' = tokens \cup {[sub |-> user.id]}
                /\ api' = Respond("login", 200, user.id, 0)
        /\ UNCHANGED <<users, revoked>>

\* A token reaches its exp claim (security.py line 41).
TokenExpires(token) ==
    /\ token \in tokens
    /\ tokens' = tokens \ {token}
    /\ UNCHANGED <<users, api, revoked>>

\* GET /users/me, users.py lines 14-16: any endpoint that depends on
\* get_current_user alone.
get_current_user_info(token) ==
    LET current == get_current_user(users, tokens, token)
    IN  /\ api' = Respond("get_current_user_info", current.status, current.user.id, 0)
        /\ UNCHANGED <<users, tokens, revoked>>

\* GET /admin/pending, admin.py lines 20-23: an endpoint that only reads.
list_pending(token) ==
    LET admin_user == require_admin(users, tokens, token)
    IN  /\ api' = Respond("list_pending", admin_user.status, admin_user.user.id, 0)
        /\ UNCHANGED <<users, tokens, revoked>>

\* POST /admin/approve/{user_id}, admin.py lines 41-59.
approve_user(token, user_id) ==
    LET admin_user == require_admin(users, tokens, token)
        user == UserById(users, user_id)
    IN  /\ IF admin_user.status # 200
           THEN /\ api' = Respond("approve_user", admin_user.status,
                                  admin_user.user.id, user_id)
                /\ UNCHANGED <<users, revoked>>
           ELSE IF user = NoUser
           THEN /\ api' = Respond("approve_user", 404, admin_user.user.id, user_id)
                /\ UNCHANGED <<users, revoked>>
           ELSE IF user.is_approved
           THEN /\ api' = Respond("approve_user", 400, admin_user.user.id, user_id)
                /\ UNCHANGED <<users, revoked>>
           ELSE /\ users' = (users \ {user}) \cup {[user EXCEPT !.is_approved = TRUE]}
                /\ revoked' = revoked \ {user_id}
                /\ api' = Respond("approve_user", 200, admin_user.user.id, user_id)
        /\ UNCHANGED tokens

\* reject_user (admin.py lines 62-83) and delete_user (lines 111-124): both
\* delete the row unless it is the admin's own.
RemoveUser(op, token, user_id) ==
    LET admin_user == require_admin(users, tokens, token)
        user == UserById(users, user_id)
    IN  /\ IF admin_user.status # 200
           THEN /\ api' = Respond(op, admin_user.status, admin_user.user.id, user_id)
                /\ UNCHANGED <<users, revoked>>
           ELSE IF user = NoUser
           THEN /\ api' = Respond(op, 404, admin_user.user.id, user_id)
                /\ UNCHANGED <<users, revoked>>
           ELSE IF user.id = admin_user.user.id
           THEN /\ api' = Respond(op, 400, admin_user.user.id, user_id)
                /\ UNCHANGED <<users, revoked>>
           ELSE /\ users' = users \ {user}
                /\ revoked' = revoked \ {user_id}
                /\ api' = Respond(op, 200, admin_user.user.id, user_id)
        /\ UNCHANGED tokens

\* Mutant of revoke_user: the test of lines 96-98 is missing.
revoke_user_without_self_check(token, user_id) ==
    LET admin_user == require_admin(users, tokens, token)
        user == UserById(users, user_id)
    IN  /\ IF admin_user.status # 200
           THEN /\ api' = Respond("revoke_user", admin_user.status,
                                  admin_user.user.id, user_id)
                /\ UNCHANGED <<users, revoked>>
           ELSE IF user = NoUser
           THEN /\ api' = Respond("revoke_user", 404, admin_user.user.id, user_id)
                /\ UNCHANGED <<users, revoked>>
           ELSE /\ users' = (users \ {user}) \cup {[user EXCEPT !.is_approved = FALSE]}
                /\ revoked' = revoked \cup {user_id}
                /\ api' = Respond("revoke_user", 200, admin_user.user.id, user_id)
        /\ UNCHANGED tokens

reject_user(token, user_id) == RemoveUser("reject_user", token, user_id)

delete_user(token, user_id) == RemoveUser("delete_user", token, user_id)

\* POST /admin/revoke/{user_id}, admin.py lines 86-108.
revoke_user(token, user_id) ==
    LET admin_user == require_admin(users, tokens, token)
        user == UserById(users, user_id)
    IN  /\ IF admin_user.status # 200
           THEN /\ api' = Respond("revoke_user", admin_user.status,
                                  admin_user.user.id, user_id)
                /\ UNCHANGED <<users, revoked>>
           ELSE IF user = NoUser
           THEN /\ api' = Respond("revoke_user", 404, admin_user.user.id, user_id)
                /\ UNCHANGED <<users, revoked>>
           ELSE IF user.id = admin_user.user.id
           THEN /\ api' = Respond("revoke_user", 400, admin_user.user.id, user_id)
                /\ UNCHANGED <<users, revoked>>
           ELSE /\ users' = (users \ {user}) \cup {[user EXCEPT !.is_approved = FALSE]}
                /\ revoked' = revoked \cup {user_id}
                /\ api' = Respond("revoke_user", 200, admin_user.user.id, user_id)
        /\ UNCHANGED tokens

Signup == \E email \in Emails, role \in RequestedRoles : signup(email, role)

CreateAdminDev == \E email \in Emails : create_admin_dev(email)

Login == \E email \in Emails, password_ok \in BOOLEAN : login(email, password_ok)

Expire == \E token \in Bearers : TokenExpires(token)

Me == \E token \in Bearers : get_current_user_info(token)

ListPending == \E token \in Bearers : list_pending(token)

Approve == \E token \in Bearers, user_id \in UserIds : approve_user(token, user_id)

Reject == \E token \in Bearers, user_id \in UserIds : reject_user(token, user_id)

Revoke == \E token \in Bearers, user_id \in UserIds : revoke_user(token, user_id)

Delete == \E token \in Bearers, user_id \in UserIds : delete_user(token, user_id)

\* The history of approvals after a response: a signup adds its new id,
\* approve_user and the two deletions take theirs out.
Pending(before, last) ==
    IF last.status # 200 THEN before
    ELSE IF last.op = "signup" THEN before \cup {last.target}
    ELSE IF last.op \in {"approve_user", "reject_user", "delete_user"}
    THEN before \ {last.target}
    ELSE before

NextAuth ==
    /\ \/ Signup
       \/ CreateAdminDev
       \/ Login
       \/ Expire
       \/ Me
       \/ ListPending
       \/ Approve
       \/ Reject
       \/ Revoke
       \/ Delete
    /\ pending' = Pending(pending, api')
    /\ UNCHANGED <<scorer_vars, thread_vars, batch, sentiment, limiter, store, unified_vars, selection, ai>>

SpecAuth == Init /\ [][NextAuth]_vars

(***************************************************************************)
(* Rate limiting of login: security_utils.py lines 91-130 and the          *)
(* decorators of auth.py lines 50 and 64.                                  *)
(***************************************************************************)

\* requests_per_minute of the login endpoints.
RequestsPerMinute == 10

\* The minutes the clock runs through, and the logins one client sends in
\* one minute.
MaxMinute == 1

MaxBurst == 11

\* login(form_data, db) and login_json(login_data, db) take no Request, and
\* the framework passes their parameters by keyword: the loop of lines
\* 101-104 finds none.
LoginArgsHaveRequest == FALSE

\* The wrapper of lines 98-128 around a function whose own answer would be
\* func_status.  With no Request among args it calls the function at once
\* (lines 106-107).  With one, line 114 reads request_counts, which the
\* assignment of the same line makes a local of wrapper that is not bound
\* yet: UnboundLocalError, answered as status 500.
rate_limit(requests_per_minute, has_request, request_counts, client_ip, current_time, func_status) ==
    IF ~has_request
    THEN [status |-> func_status, reached |-> TRUE, request_counts |-> request_counts]
    ELSE [status |-> 500, reached |-> FALSE, request_counts |-> request_counts]

\* A client posts to /auth/login or /auth/login-json; func_status is what
\* the endpoint answers when it runs: 200 with a token or 401.
LoginAttempt(client, func_status) ==
    /\ limiter.sent[client] < MaxBurst
    /\ LET out == rate_limit(RequestsPerMinute, LoginArgsHaveRequest,
                             limiter.request_counts, client, limiter.minute,
                             func_status)
       IN  limiter' = [limiter EXCEPT
                          !.request_counts = out.request_counts,
                          !.sent[client] = @ + 1,
                          !.last = [client |-> client, nth |-> limiter.sent[client] + 1,
                                    status |-> out.status, reached |-> out.reached]]
    /\ UNCHANGED <<scorer_vars, thread_vars, batch, sentiment, auth_vars, store,
                   unified_vars, selection, ai>>

\* int(time.time() / 60) moves on to the next minute.
MinutePasses ==
    /\ limiter.minute < MaxMinute
    /\ limiter' = [limiter EXCEPT !.minute = @ + 1,
                                  !.sent = [c \in Clients |-> 0]]
    /\ UNCHANGED <<scorer_vars, thread_vars, batch, sentiment, auth_vars, store,
                   unified_vars, selection, ai>>

LoginRequests == \E client \in Clients, func_status \in {200, 401} :
                     LoginAttempt(client, func_status)

NextLimiter == LoginRequests \/ MinutePasses

SpecLimiter == Init /\ [][NextLimiter]_vars

(***************************************************************************)
(* Sessions and transcripts: routers/sessions.py and the transcript export *)
(* of routers/reports.py.  current_user is the id get_current_user         *)
(* returned, or 0 when it answered 401.  The order of the returned items   *)
(* (by timestamp_ms) is not kept: content is the set of rows returned.     *)
(***************************************************************************)

MaxSessions == 2

MaxItems == 2

\* Transcript texts: a plain one and one with characters the sanitizer
\* removes.
TranscriptTexts == {<<"h","i">>, <<"<","o","k",">">>}

\* SecurityUtils.sanitize_input, security_utils.py lines 55-71, on texts
\* shorter than max_length.  The backquote, the tenth dangerous character,
\* cannot be written in a string here and occurs in no modelled text.
sanitize_input(text) ==
    strip(SelectSeq(text, LAMBDA ch :
        ch \notin {"<", ">", "\"", "'", "&", ";", "(", ")", "|", "$"}))

\* db.query(models.InterviewSession).get(session_id), or NoUser-like None.
NoSession == [id |-> 0, user_id |-> 0]

SessionById(sessions, session_id) ==
    IF \E x \in sessions : x.id = session_id
    THEN CHOOSE x \in sessions : x.id = session_id
    ELSE NoSession

\* The rows of the transcripts table of one session.
ItemsOf(transcripts, session_id) == {t \in transcripts : t.session_id = session_id}

StoreResponse(op, caller, session_id, status, content) ==
    [op |-> op, caller |-> caller, session_id |-> session_id, status |-> status,
     content |-> content]

\* POST /sessions/, sessions.py lines 14-26.
create_session(current_user, payload_user_id) ==
    /\ Cardinality(store.sessions) < MaxSessions
    /\ IF current_user = 0
       THEN store' = [store EXCEPT !.last = StoreResponse("create_session", 0, 0, 401, {})]
       ELSE IF current_user # payload_user_id
       THEN store' = [store EXCEPT
                         !.last = StoreResponse("create_session", current_user, 0, 403, {})]
       ELSE LET id == Cardinality(store.sessions) + 1
            IN  store' = [store EXCEPT
                    !.sessions = @ \cup {[id |-> id, user_id |-> payload_user_id]},
                    !.last = StoreResponse("create_session", current_user, id, 200, {})]

\* POST /sessions/transcript, sessions.py lines 40-63.
add_transcript(current_user, session_id, text) ==
    LET x == SessionById(store.sessions, session_id)
    IN  /\ Cardinality(store.transcripts) < MaxItems
        /\ IF current_user = 0
           THEN store' = [store EXCEPT
                   !.last = StoreResponse("add_transcript", 0, session_id, 401, {})]
           ELSE IF x = NoSession
           THEN store' = [store EXCEPT
                   !.last = StoreResponse("add_transcript", current_user, session_id, 404, {})]
           ELSE IF current_user # x.user_id
           THEN store' = [store EXCEPT
                   !.last = StoreResponse("add_transcript", current_user, session_id, 403, {})]
           ELSE LET t == [id |-> Cardinality(store.transcripts) + 1,
                          session_id |-> session_id, text |-> sanitize_input(text)]
                IN  store' = [store EXCEPT
                        !.transcripts = @ \cup {t},
                        !.last = StoreResponse("add_transcript", current_user,
                                               session_id, 200, {t})]

\* GET /sessions/{session_id}/transcript (lines 66-75) and
\* GET /sessions/{session_id}/full-transcript (lines 96-119): both return
\* the session's rows after the same checks.
ReadTranscript(op, current_user, session_id) ==
    LET x == SessionById(store.sessions, session_id)
    IN  IF current_user = 0
        THEN store' = [store EXCEPT !.last = StoreResponse(op, 0, session_id, 401, {})]
        ELSE IF x = NoSession
        THEN store' = [store EXCEPT
                !.last = StoreResponse(op, current_user, session_id, 404, {})]
        ELSE IF current_user # x.user_id
        THEN store' = [store EXCEPT
                !.last = StoreResponse(op, current_user, session_id, 403, {})]
        ELSE store' = [store EXCEPT
                !.last = StoreResponse(op, current_user, session_id, 200,
                                       ItemsOf(store.transcripts, session_id))]

list_transcript(current_user, session_id) ==
    ReadTranscript("list_transcript", current_user, session_id)

get_full_transcript(current_user, session_id) ==
    ReadTranscript("get_full_transcript", current_user, session_id)

\* GET /reports/{session_id}/transcript.csv, reports.py lines 288-298: no
\* dependency on get_current_user; whoever calls gets the rows.
transcript_csv(current_user, session_id) ==
    store' = [store EXCEPT
        !.last = StoreResponse("transcript_csv", current_user, session_id, 200,
                               ItemsOf(store.transcripts, session_id))]

SessionIds == 1..MaxSessions

Callers == UserIds \cup {0}

CreateSession == \E u \in Callers, p \in UserIds : create_session(u, p)

AddTranscript ==
    \E u \in Callers, i \in SessionIds, text \in TranscriptTexts :
        add_transcript(u, i, text)

ListTranscript == \E u \in Callers, i \in SessionIds : list_transcript(u, i)

GetFullTranscript == \E u \in Callers, i \in SessionIds : get_full_transcript(u, i)

TranscriptCsv == \E u \in Callers, i \in SessionIds : transcript_csv(u, i)

NextSessions ==
    /\ \/ CreateSession
       \/ AddTranscript
       \/ ListTranscript
       \/ GetFullTranscript
       \/ TranscriptCsv
    /\ UNCHANGED <<scorer_vars, thread_vars, batch, sentiment, auth_vars, limiter,
                   unified_vars, selection, ai>>

SpecSessions == Init /\ [][NextSessions]_vars

(***************************************************************************)
(* /unified-analysis: routers/unified_analysis.py.  Of a response the      *)
(* model keeps has_issues, overall_score and flagged_items; insights,      *)
(* recommendations, the timestamps and the optional database row are left  *)
(* out.  session_id is absent from every modelled request.                 *)
(***************************************************************************)

\* A call is accepted by the model while fewer than MaxFlagged items are
\* in the global list.
MaxFlagged == 1

\* Texts: blank only, one keyword of two categories, a gender keyword with
\* a context phrase.
UnifiedTexts ==
    {<<" ">>, <<"n","e","v","e","r">>, <<"W","o","m","e","n"," ","t","o","o">>}

\* What the VADER analyzer does in _get_sentiment_analysis.
UnifiedSentiments ==
    {[raises |-> TRUE, compound |-> 0],
     [raises |-> FALSE, compound |-> 0 - (8 * ONE) \div 10],
     [raises |-> FALSE, compound |-> (6 * ONE) \div 10]}

\* _get_sentiment_analysis, lines 45-73.
_get_sentiment_analysis(outcome) ==
    IF outcome.raises
    THEN [label |-> "NEUTRAL", confidence |-> 0, status |-> "error"]
    ELSE [label |-> IF outcome.compound >= (5 * ONE) \div 100 THEN "POSITIVE"
                    ELSE IF outcome.compound <= 0 - (5 * ONE) \div 100 THEN "NEGATIVE"
                    ELSE "NEUTRAL",
          confidence |-> IF outcome.compound < 0 THEN 0 - outcome.compound
                         ELSE outcome.compound,
          status |-> "success"]

\* _get_bias_detection, lines 75-115, with the globals of realtime_bias
\* afterwards; neither call of the try block raises.
_get_bias_detection(text, g, env) ==
    LET lexicon_bias == _fast_lexicon_filter(text)
        ml == _sentence_level_classification(g, env.load, env.predict)
    IN  [is_biased |-> lexicon_bias # << >> \/ ml.is_biased,
         confidence |-> Max(MaxConfidence(lexicon_bias), ml.confidence),
         bias_score |-> IF lexicon_bias # << >>
                        THEN Min(TotalWeight(lexicon_bias) \div Len(lexicon_bias), ONE)
                        ELSE 0,
         categories |-> lexicon_bias,
         status |-> "success",
         globals |-> ml.globals]

NegativeSentimentDetected ==
    <<"N","e","g","a","t","i","v","e"," ","s","e","n","t","i","m","e",
      "n","t"," ","d","e","t","e","c","t","e","d"," ","(","c","o","n",
      "f","i","d","e","n","c","e",":"," ">>

BiasDetected ==
    <<" ","b","i","a","s"," ","d","e","t","e","c","t","e","d",":"," ">>

\* The item of lines 172-179.
SentimentItem(sentiment_result) ==
    [type |-> "negative_sentiment", severity |-> "medium",
     confidence |-> sentiment_result.confidence,
     description |-> NegativeSentimentDetected
                     \o FormatFloat2(sentiment_result.confidence)
                     \o <<")">>,
     session_id |-> "None"]

\* The item of lines 184-193.
BiasItem(category) ==
    [type |-> "bias_detection", severity |-> "high",
     confidence |-> category.confidence, category |-> category.category,
     description |-> CategoryChars(category.category) \o BiasDetected
                     \o category.keyword,
     context |-> category.context, session_id |-> "None"]

\* _track_flagged_detection, lines 164-198: the items it returns, which
\* line 196 also appends to the global list.
_track_flagged_detection(sentiment_result, bias_result) ==
    (IF /\ sentiment_result.label = "NEGATIVE"
        /\ 10 * sentiment_result.confidence > 5 * ONE
     THEN <<SentimentItem(sentiment_result)>> ELSE << >>)
    \o (IF bias_result.is_biased
        THEN [i \in 1..Len(bias_result.categories) |->
                 BiasItem(bias_result.categories[i])]
        ELSE << >>)

\* The try block and except clause shared by unified_analysis (lines
\* 209-276) and unified_analysis_public (lines 283-328), for the stripped
\* text.  The HTTPException raised at line 212 is an Exception: the clause
\* of line 275 catches it and raises status 500 in its place, with a detail
\* that begins "Analysis failed: ".
AnalysisResponse(text, sentiment_result, bias_result, flagged_items) ==
    IF text = << >>
    THEN [status |-> 500, detail |-> "Analysis failed", body |-> << >>]
    ELSE LET negative == IF sentiment_result.label = "NEGATIVE"
                         THEN (sentiment_result.confidence * 4) \div 10 ELSE 0
             biased == IF bias_result.is_biased
                       THEN (bias_result.bias_score * 6) \div 10 ELSE 0
             overall_score == negative + biased
         IN  [status |-> 200, detail |-> "none",
              body |-> <<[has_issues |-> 10 * overall_score > 3 * ONE
                                         \/ Len(flagged_items) > 0,
                          overall_score |-> overall_score,
                          flagged_items |-> flagged_items]>>]

\* POST /unified-analysis/analyze (current_user an id, or 0 when
\* get_current_user answered 401) and /analyze-public (op names it).
Analyze(op, current_user, request_text, outcome, env) ==
    /\ analysis.pc = "idle"
    /\ Len(flagged_detections) < MaxFlagged
    /\ IF op = "unified_analysis" /\ current_user = 0
       THEN /\ analysis' = [analysis EXCEPT
                   !.pc = "responded", !.op = op, !.caller = 0,
                   !.text = request_text, !.status = 401]
            /\ UNCHANGED <<flagged_detections, bias_pipeline, vectorizer,
                           classifier, train_count>>
       ELSE LET text == strip(request_text)
                sentiment_result == _get_sentiment_analysis(outcome)
            IN  \E bias_result \in {_get_bias_detection(text, globals, env)} :
                \E flagged_items \in {IF text = << >> THEN << >>
                                      ELSE _track_flagged_detection(
                                               sentiment_result, bias_result)} :
                \E out \in {AnalysisResponse(text, sentiment_result, bias_result,
                                             flagged_items)} :
                    /\ flagged_detections' = flagged_detections \o flagged_items
                    /\ IF text = << >>
                       THEN UNCHANGED <<bias_pipeline, vectorizer, classifier,
                                        train_count>>
                       ELSE /\ bias_pipeline' = bias_result.globals.bias_pipeline
                            /\ vectorizer' = bias_result.globals.vectorizer
                            /\ classifier' = bias_result.globals.classifier
                            /\ train_count' = bias_result.globals.train_count
                    /\ analysis' = [analysis EXCEPT
                           !.pc = "responded", !.op = op, !.caller = current_user,
                           !.text = request_text, !.status = out.status,
                           !.detail = out.detail, !.body = out.body,
                           !.tracked = IF op = "unified_analysis"
                                       THEN [@ EXCEPT ![current_user] = @ \o flagged_items]
                                       ELSE @]
    /\ UNCHANGED <<request_vars, thread_vars, batch, sentiment, auth_vars, limiter,
                   store, selection, ai>>

\* Line 336: the items whose "user_id" is the caller's id; an item with no
\* such key gives None, which equals no id.
UserFlagged(items, user_id) ==
    SelectSeq(items, LAMBDA item :
        "user_id" \in DOMAIN item /\ item["user_id"] = user_id)

\* GET /unified-analysis/flagged-detections, lines 330-345.
get_flagged_detections(current_user) ==
    /\ analysis.pc = "idle"
    /\ IF current_user = 0
       THEN analysis' = [analysis EXCEPT
               !.pc = "responded", !.op = "get_flagged_detections", !.caller = 0,
               !.status = 401]
       ELSE LET user_flagged == UserFlagged(flagged_detections, current_user)
            IN  analysis' = [analysis EXCEPT
                   !.pc = "responded", !.op = "get_flagged_detections",
                   !.caller = current_user, !.status = 200,
                   !.body = <<[total_flagged |-> Len(user_flagged),
                               flagged_items |-> user_flagged,
                               summary |->
                                 [negative_sentiment |->
                                    Len(SelectSeq(user_flagged, LAMBDA item :
                                        item.type = "negative_sentiment")),
                                  bias_detection |->
                                    Len(SelectSeq(user_flagged, LAMBDA item :
                                        item.type = "bias_detection"))]]>>]
    /\ UNCHANGED <<flagged_detections, scorer_vars, thread_vars, batch, sentiment,
                   auth_vars, limiter, store, selection, ai>>

\* DELETE /unified-analysis/clear-flagged-detections, lines 347-352: the
\* whole list goes, whoever calls.
clear_flagged_detections(current_user) ==
    /\ analysis.pc = "idle"
    /\ IF current_user = 0
       THEN /\ analysis' = [analysis EXCEPT
                   !.pc = "responded", !.op = "clear_flagged_detections",
                   !.caller = 0, !.status = 401]
            /\ UNCHANGED flagged_detections
       ELSE /\ flagged_detections' = << >>
            /\ analysis' = [analysis EXCEPT
                   !.pc = "responded", !.op = "clear_flagged_detections",
                   !.caller = current_user, !.status = 200,
                   !.tracked = [u \in DOMAIN @ |-> << >>]]
    /\ UNCHANGED <<scorer_vars, thread_vars, batch, sentiment, auth_vars, limiter,
                   store, selection, ai>>

\* The response has gone to the client.
AnalysisDeliver ==
    /\ analysis.pc = "responded"
    /\ analysis' = [NoAnalysis EXCEPT !.tracked = analysis.tracked]
    /\ UNCHANGED <<flagged_detections, scorer_vars, thread_vars, batch, sentiment,
                   auth_vars, limiter, store, selection, ai>>

UnifiedAnalysis ==
    \E op \in {"unified_analysis", "unified_analysis_public"},
       u \in 0..2, text \in UnifiedTexts, outcome \in UnifiedSentiments,
       env \in Envs(globals, {"none"}) :
        /\ op = "unified_analysis_public" => u = 0
        /\ Analyze(op, u, text, outcome, env)

GetFlaggedDetections == \E u \in 0..2 : get_flagged_detections(u)

ClearFlaggedDetections == \E u \in 0..2 : clear_flagged_detections(u)

NextUnified ==
    UnifiedAnalysis \/ GetFlaggedDetections \/ ClearFlaggedDetections
    \/ AnalysisDeliver

SpecUnified == Init /\ [][NextUnified]_vars

(***************************************************************************)
(* /questions: routers/question_selector.py.                               *)
(***************************************************************************)

MaxQuestions == 5
MaxDifficulties == 3

\* The difficulty levels of the question bank.
DifficultyLevels == {"Easy", "Medium", "Hard"}

\* Every list of one to MaxDifficulties levels; QuestionRequest.difficulties
\* is a List[str] and nothing removes a repeated level.
DifficultyLists ==
    UNION {[1..n -> DifficultyLevels] : n \in 1..MaxDifficulties}

\* calculate_difficulty_distribution, lines 178-193.  The dict is a function
\* on its keys; a key assigned more than once keeps the last assignment.
calculate_difficulty_distribution(num_questions, difficulties) ==
    IF difficulties = << >> THEN << >>
    ELSE LET num_difficulties == Len(difficulties)
             base_questions_per_difficulty == num_questions \div num_difficulties
             remainder == num_questions % num_difficulties
             extra(i) == IF i - 1 < remainder THEN 1 ELSE 0
             last(difficulty) ==
                 CHOOSE i \in 1..num_difficulties :
                     /\ difficulties[i] = difficulty
                     /\ \A j \in (i + 1)..num_difficulties :
                            difficulties[j] # difficulty
         IN  [difficulty \in {difficulties[i] : i \in 1..num_difficulties} |->
                 base_questions_per_difficulty + extra(last(difficulty))]

\* select_questions line 216 calls the function with the request's values.
CalculateDistribution ==
    /\ selection.pc = "idle"
    /\ \E num_questions \in 0..MaxQuestions, difficulties \in DifficultyLists :
           selection' = [pc |-> "responded", num_questions |-> num_questions,
                         difficulties |-> difficulties,
                         distribution |->
                             calculate_difficulty_distribution(num_questions,
                                                               difficulties)]
    /\ UNCHANGED <<scorer_vars, thread_vars, batch, sentiment, auth_vars, limiter,
                   store, unified_vars, ai>>

\* The distribution has been used.
SelectionDeliver ==
    /\ selection.pc = "responded"
    /\ selection' = NoSelection
    /\ UNCHANGED <<scorer_vars, thread_vars, batch, sentiment, auth_vars, limiter,
                   store, unified_vars, ai>>

NextSelection == CalculateDistribution \/ SelectionDeliver

SpecSelection == Init /\ [][NextSelection]_vars

(***************************************************************************)
(* /ai/bias (routers/ai.py) and the pattern stage of /continuous-ai's      *)
(* detect_bias_detailed (routers/continuous_ai.py).  A text is words of    *)
(* letters joined by single spaces, so a regular expression of the form    *)
(* \b(..|..)\s+(..|..)\b matches exactly at runs of whole words: a pattern *)
(* is the sequence of its groups, a group the set of its alternatives, an  *)
(* alternative a sequence of words ("males?" is both of its words).  The   *)
(* "explanation" strings and raw_results are left out of the response.     *)
(***************************************************************************)

MaxAiWords == 4

AiVocabulary ==
    {<<"t","o","o">>, <<"o","l","d">>, <<"o","n","l","y">>, <<"w","o","m","e","n">>, <<"h","e","l","l","o">>}

\* The texts of one to MaxAiWords words.
AiTexts ==
    {join(ws) : ws \in UNION {[1..n -> AiVocabulary] : n \in 1..MaxAiWords}}

\* What the classifier of _load_bias_pipeline contributes: there is none,
\* or none of its labels is a toxic one, or one is, with score 0.9.
AiPipelines == {"none", "clean", "toxic"}

\* bias_patterns of detect_bias, ai.py lines 247-272.
bias_patterns ==
    <<[category |-> "gender",
      keywords |->
        <<<<"m","a","n">>, <<"w","o","m","a","n">>,
          <<"f","e","m","a","l","e">>, <<"m","a","l","e">>,
          <<"p","r","e","g","n","a","n","t">>, <<"m","o","t","h","e","r">>,
          <<"f","a","t","h","e","r">>, <<"g","i","r","l">>, <<"b","o","y">>,
          <<"l","a","d","y">>, <<"g","e","n","t","l","e","m","a","n">>,
          <<"w","o","m","e","n">>, <<"m","e","n">>>>,
      contexts |->
        <<<<"p","r","e","f","e","r">>, <<"o","n","l","y">>,
          <<"m","u","s","t"," ","b","e">>,
          <<"s","h","o","u","l","d"," ","b","e">>,
          <<"t","y","p","i","c","a","l","l","y">>,
          <<"u","s","u","a","l","l","y">>,
          <<"g","e","n","e","r","a","l","l","y">>,
          <<"n","o","t"," ","g","o","o","d">>,
          <<"n","o","t"," ","s","u","i","t","a","b","l","e">>,
          <<"s","h","o","u","l","d","n","'","t">>, <<"c","a","n","'","t">>,
          <<"c","a","n","n","o","t">>, <<"t","o","o">>>>],
     [category |-> "age",
      keywords |->
        <<<<"y","o","u","n","g">>, <<"o","l","d">>, <<"a","g","e">>,
          <<"r","e","t","i","r","e">>,
          <<"m","i","l","l","e","n","n","i","a","l">>, <<"g","e","n"," ","z">>,
          <<"b","o","o","m","e","r">>, <<"s","e","n","i","o","r">>,
          <<"j","u","n","i","o","r">>, <<"f","r","e","s","h">>,
          <<"e","x","p","e","r","i","e","n","c","e","d">>, <<"a","g","e","d">>>>,
      contexts |->
        <<<<"t","o","o">>, <<"n","o","t"," ","s","u","i","t","a","b","l","e">>,
          <<"p","r","e","f","e","r">>, <<"o","n","l","y">>,
          <<"m","u","s","t"," ","b","e">>,
          <<"s","h","o","u","l","d","n","'","t">>, <<"c","a","n","'","t">>,
          <<"c","a","n","n","o","t">>, <<"n","o","t"," ","g","o","o","d">>>>],
     [category |-> "ethnicity",
      keywords |->
        <<<<"r","a","c","e">>, <<"e","t","h","n","i","c","i","t","y">>,
          <<"n","a","t","i","o","n","a","l","i","t","y">>,
          <<"a","c","c","e","n","t">>,
          <<"b","a","c","k","g","r","o","u","n","d">>,
          <<"o","r","i","g","i","n">>, <<"c","u","l","t","u","r","e">>,
          <<"f","o","r","e","i","g","n">>,
          <<"i","m","m","i","g","r","a","n","t">>>>,
      contexts |->
        <<<<"p","r","e","f","e","r">>, <<"o","n","l","y">>,
          <<"m","u","s","t"," ","b","e">>,
          <<"s","h","o","u","l","d"," ","b","e">>,
          <<"t","y","p","i","c","a","l","l","y">>,
          <<"n","o","t"," ","s","u","i","t","a","b","l","e">>,
          <<"s","h","o","u","l","d","n","'","t">>>>],
     [category |-> "religion",
      keywords |->
        <<<<"r","e","l","i","g","i","o","n">>,
          <<"c","h","r","i","s","t","i","a","n">>, <<"m","u","s","l","i","m">>,
          <<"j","e","w","i","s","h">>, <<"h","i","n","d","u">>,
          <<"b","u","d","d","h","i","s","t">>, <<"f","a","i","t","h">>,
          <<"b","e","l","i","e","f">>, <<"r","e","l","i","g","i","o","u","s">>>>,
      contexts |->
        <<<<"p","r","e","f","e","r">>, <<"o","n","l","y">>,
          <<"m","u","s","t"," ","b","e">>,
          <<"s","h","o","u","l","d"," ","b","e">>,
          <<"t","y","p","i","c","a","l","l","y">>,
          <<"n","o","t"," ","s","u","i","t","a","b","l","e">>>>],
     [category |-> "disability",
      keywords |->
        <<<<"d","i","s","a","b","l","e","d">>,
          <<"h","a","n","d","i","c","a","p">>, <<"m","e","n","t","a","l">>,
          <<"a","u","t","i","s","m">>,
          <<"w","h","e","e","l","c","h","a","i","r">>, <<"b","l","i","n","d">>,
          <<"d","e","a","f">>, <<"l","i","m","i","t","a","t","i","o","n">>,
          <<"h","a","n","d","i","c","a","p","p","e","d">>>>,
      contexts |->
        <<<<"p","r","e","f","e","r">>, <<"o","n","l","y">>,
          <<"m","u","s","t"," ","b","e">>,
          <<"s","h","o","u","l","d"," ","b","e">>,
          <<"n","o","t"," ","s","u","i","t","a","b","l","e">>,
          <<"c","a","n","n","o","t">>, <<"c","a","n","'","t">>>>],
     [category |-> "appearance",
      keywords |->
        <<<<"a","t","t","r","a","c","t","i","v","e">>,
          <<"g","o","o","d"," ","l","o","o","k","i","n","g">>,
          <<"p","r","o","f","e","s","s","i","o","n","a","l"," ","a","p","p","e","a","r","a","n","c","e">>,
          <<"d","r","e","s","s">>, <<"s","t","y","l","e">>,
          <<"i","m","a","g","e">>, <<"b","e","a","u","t","i","f","u","l">>,
          <<"h","a","n","d","s","o","m","e">>>>,
      contexts |->
        <<<<"m","u","s","t"," ","b","e">>,
          <<"s","h","o","u","l","d"," ","b","e">>, <<"p","r","e","f","e","r">>,
          <<"o","n","l","y">>, <<"t","y","p","i","c","a","l","l","y">>,
          <<"n","o","t"," ","s","u","i","t","a","b","l","e">>>>]>>

\* The words of ai.py line 300.
negative_context_words ==
    <<<<"n","o","t">>, <<"n","o">>, <<"s","h","o","u","l","d","n","'","t">>,
      <<"c","a","n","'","t">>, <<"c","a","n","n","o","t">>, <<"t","o","o">>,
      <<"o","n","l","y">>, <<"p","r","e","f","e","r">>>>

\* interview_bias_patterns of detect_bias, ai.py lines 314-322.
interview_bias_patterns ==
    <<<<{<<<<"o","n","l","y">>>>, <<<<"m","u","s","t">>>>,
          <<<<"s","h","o","u","l","d">>>>,
          <<<<"s","h","o","u","l","d","n","'","t">>>>,
          <<<<"c","a","n","'","t">>>>, <<<<"c","a","n","n","o","t">>>>},
       {<<<<"m","e","n">>>>, <<<<"w","o","m","e","n">>>>,
          <<<<"m","a","l","e">>>>, <<<<"m","a","l","e","s">>>>,
          <<<<"f","e","m","a","l","e">>>>, <<<<"f","e","m","a","l","e","s">>>>}>>,
     <<{<<<<"p","r","e","f","e","r">>>>, <<<<"w","a","n","t">>>>,
          <<<<"d","o","n","'","t">>, <<"w","a","n","t">>>>,
          <<<<"d","o","n","'","t">>, <<"p","r","e","f","e","r">>>>},
       {<<<<"y","o","u","n","g">>>>, <<<<"o","l","d">>>>,
          <<<<"e","x","p","e","r","i","e","n","c","e","d">>>>,
          <<<<"f","r","e","s","h">>>>}>>,
     <<{<<<<"t","y","p","i","c","a","l","l","y">>>>,
          <<<<"u","s","u","a","l","l","y">>>>,
          <<<<"g","e","n","e","r","a","l","l","y">>>>},
       {<<<<"m","e","n">>>>, <<<<"w","o","m","e","n">>>>,
          <<<<"y","o","u","n","g">>>>, <<<<"o","l","d">>>>}>>,
     <<{<<<<"n","o","t">>, <<"s","u","i","t","a","b","l","e">>>>,
          <<<<"c","a","n","n","o","t">>>>, <<<<"c","a","n","'","t">>>>},
       {<<<<"b","e","c","a","u","s","e">>>>,
          <<<<"d","u","e">>, <<"t","o">>>>},
       {<<<<"a","g","e">>>>, <<<<"g","e","n","d","e","r">>>>,
          <<<<"r","a","c","e">>>>, <<<<"r","e","l","i","g","i","o","n">>>>}>>,
     <<{<<<<"w","e">>>>, <<<<"t","h","e","y">>>>, <<<<"y","o","u">>>>},
       {<<<<"s","h","o","u","l","d","n","'","t">>>>,
          <<<<"c","a","n","'","t">>>>, <<<<"c","a","n","n","o","t">>>>,
          <<<<"d","o","n","'","t">>>>},
       {<<<<"h","i","r","e">>>>, <<<<"e","m","p","l","o","y">>>>},
       {<<<<"w","o","m","e","n">>>>, <<<<"m","e","n">>>>,
          <<<<"y","o","u","n","g">>>>, <<<<"o","l","d">>>>}>>,
     <<{<<<<"t","o","o">>>>},
       {<<<<"y","o","u","n","g">>>>, <<<<"o","l","d">>>>,
          <<<<"e","x","p","e","r","i","e","n","c","e","d">>>>,
          <<<<"f","r","e","s","h">>>>}>>,
     <<{<<<<"n","o","t">>, <<"g","o","o","d">>>>,
          <<<<"n","o","t">>, <<"s","u","i","t","a","b","l","e">>>>,
          <<<<"n","o","t">>, <<"a","p","p","r","o","p","r","i","a","t","e">>>>},
       {<<<<"f","o","r">>>>, <<<<"a","t">>>>}>>>>

\* interview_bias_patterns of detect_bias_detailed, continuous_ai.py lines
\* 190-195.
detailed_interview_bias_patterns ==
    <<<<{<<<<"o","n","l","y">>>>, <<<<"m","u","s","t">>>>,
          <<<<"s","h","o","u","l","d">>>>},
       {<<<<"m","e","n">>>>, <<<<"w","o","m","e","n">>>>,
          <<<<"m","a","l","e">>>>, <<<<"m","a","l","e","s">>>>,
          <<<<"f","e","m","a","l","e">>>>, <<<<"f","e","m","a","l","e","s">>>>}>>,
     <<{<<<<"p","r","e","f","e","r">>>>, <<<<"w","a","n","t">>>>},
       {<<<<"y","o","u","n","g">>>>, <<<<"o","l","d">>>>,
          <<<<"e","x","p","e","r","i","e","n","c","e","d">>>>,
          <<<<"f","r","e","s","h">>>>}>>,
     <<{<<<<"t","y","p","i","c","a","l","l","y">>>>,
          <<<<"u","s","u","a","l","l","y">>>>,
          <<<<"g","e","n","e","r","a","l","l","y">>>>},
       {<<<<"m","e","n">>>>, <<<<"w","o","m","e","n">>>>,
          <<<<"y","o","u","n","g">>>>, <<<<"o","l","d">>>>}>>,
     <<{<<<<"n","o","t">>, <<"s","u","i","t","a","b","l","e">>>>,
          <<<<"c","a","n","n","o","t">>>>},
       {<<<<"b","e","c","a","u","s","e">>>>,
          <<<<"d","u","e">>, <<"t","o">>>>},
       {<<<<"a","g","e">>>>, <<<<"g","e","n","d","e","r">>>>,
          <<<<"r","a","c","e">>>>, <<<<"r","e","l","i","g","i","o","n">>>>}>>>>

\* The bias_words of the except clause, ai.py line 357.
fallback_bias_words ==
    <<<<"p","r","e","f","e","r">>, <<"o","n","l","y">>, <<"m","u","s","t">>,
      <<"r","e","q","u","i","r","e">>, <<"n","o","t">>>>

RECURSIVE PatternPhrases(_)
\* The word sequences a pattern matches: one alternative of each group.
PatternPhrases(groups) ==
    IF groups = << >> THEN {<< >>}
    ELSE {a \o b : a \in Head(groups), b \in PatternPhrases(Tail(groups))}

InterviewPhrases ==
    [p \in 1..Len(interview_bias_patterns) |->
        PatternPhrases(interview_bias_patterns[p])]

DetailedInterviewPhrases ==
    [p \in 1..Len(detailed_interview_bias_patterns) |->
        PatternPhrases(detailed_interview_bias_patterns[p])]

\* any(k in s for k in ks)
ContainsAny(s, ks) == \E i \in 1..Len(ks) : Contains(s, ks[i])

RECURSIVE Flatten(_)
\* The concatenation of a sequence of sequences.
Flatten(ss) == IF ss = << >> THEN << >> ELSE Head(ss) \o Flatten(Tail(ss))

RECURSIVE finditer(_, _, _)
\* re.finditer(pattern, text_lower) from word i on: the matches from left
\* to right, none overlapping another, each with group() and start().
finditer(phrases, words, i) ==
    IF i > Len(words) THEN << >>
    ELSE LET lens == {n \in 1..(Len(words) - i + 1) :
                         SubSeq(words, i, i + n - 1) \in phrases}
         IN  IF lens = {} THEN finditer(phrases, words, i + 1)
             ELSE LET n == CHOOSE x \in lens : TRUE
                  IN  <<[group |-> join(SubSeq(words, i, i + n - 1)),
                         start |-> IF i = 1 THEN 0
                                   ELSE Len(join(SubSeq(words, 1, i - 1))) + 1]>>
                      \o finditer(phrases, words, i + n)

\* The body of the keyword loop for one keyword, ai.py lines 278-311: the
\* location it appends, if any.
KeywordLocation(text, patterns, keyword) ==
    LET text_lower == lower(text)
        words == split(text)
        holders == {i \in 1..Len(words) : Contains(lower(words[i]), keyword)}
    IN  IF ~Contains(text_lower, keyword) \/ holders = {} THEN << >>
        ELSE LET keyword_index == (CHOOSE i \in holders : \A j \in holders : i <= j) - 1
                 start == Max(0, keyword_index - 3)
                 end == Min(Len(words), keyword_index + 4)
                 context_found == ContainsAny(text_lower, patterns.contexts)
             IN  IF context_found \/ ContainsAny(text_lower, negative_context_words)
                 THEN <<[category |-> patterns.category, keyword |-> keyword,
                         position |-> find(text_lower, keyword),
                         context |-> join(Slice(words, start, end)),
                         severity |-> IF context_found THEN "high" ELSE "medium"]>>
                 ELSE << >>

\* The keyword loops, ai.py lines 277-311: every location appended.
KeywordLocations(text) ==
    Flatten([c \in 1..Len(bias_patterns) |->
        Flatten([k \in 1..Len(bias_patterns[c].keywords) |->
            KeywordLocation(text, bias_patterns[c],
                            bias_patterns[c].keywords[k])])])

\* The bias_location of ai.py lines 328-335.
InterviewLocation(p, match) ==
    [category |-> "interview_bias", pattern |-> p, match |-> match.group,
     position |-> match.start, severity |-> "high"]

RECURSIVE InterviewStage(_, _, _)
\* The loop of ai.py lines 325-338 from pattern p on.  The dict literal of
\* line 328 closes at the indentation of the outer loop, and lines 336-338
\* are statements of the outer loop: they run once for each pattern, after
\* its matches, with whatever bias_location and match were assigned last.
\* A local that was never assigned raises UnboundLocalError.  In st,
\* bias_location and match are empty while unassigned.
InterviewStage(words, p, st) ==
    IF p > Len(interview_bias_patterns) THEN st
    ELSE LET matches == finditer(InterviewPhrases[p], words, 1)
             bias_location ==
                 IF matches = << >> THEN st.bias_location
                 ELSE <<InterviewLocation(p, matches[Len(matches)])>>
             match == IF matches = << >> THEN st.match
                      ELSE <<matches[Len(matches)]>>
         IN  IF bias_location = << >> \/ match = << >>
             THEN [st EXCEPT !.raised = TRUE]
             ELSE InterviewStage(words, p + 1,
                      [st EXCEPT
                          !.bias_location = bias_location,
                          !.match = match,
                          !.bias_locations = Append(@, bias_location[1]),
                          !.flagged = TRUE,
                          !.detected_labels =
                              Append(@, [kind |-> "Interview bias",
                                         match |-> match[1].group])])

\* detect_bias, ai.py lines 215-365, for the text and what the classifier
\* contributes.
detect_bias(text, pipeline) ==
    LET text_lower == lower(text)
        keyword_locations == KeywordLocations(text)
        before ==
            [bias_location |->
                 IF keyword_locations = << >> THEN << >>
                 ELSE <<keyword_locations[Len(keyword_locations)]>>,
             match |-> << >>,
             bias_locations |-> keyword_locations,
             flagged |-> pipeline = "toxic" \/ keyword_locations # << >>,
             detected_labels |->
                 (IF pipeline = "toxic" THEN <<[kind |-> "toxic"]>> ELSE << >>)
                 \o [i \in 1..Len(keyword_locations) |->
                        [kind |-> "keyword",
                         category |-> keyword_locations[i].category,
                         keyword |-> keyword_locations[i].keyword]],
             raised |-> FALSE]
        st == InterviewStage(split(text_lower), 1, before)
    IN  IF st.raised
        THEN LET flagged == ContainsAny(text_lower, fallback_bias_words)
             IN  [flagged |-> flagged,
                  confidence |-> IF flagged THEN ONE \div 2 ELSE 0,
                  detected_labels |->
                      IF flagged THEN <<[kind |-> "fallback_detection"]>>
                      ELSE << >>,
                  bias_locations |-> << >>,
                  error |-> "UnboundLocalError"]
        ELSE [flagged |-> st.flagged,
              confidence |-> IF pipeline = "toxic" THEN (9 * ONE) \div 10 ELSE 0,
              detected_labels |-> st.detected_labels,
              bias_locations |-> st.bias_locations,
              detailed_analysis |->
                  [total_issues |-> Len(st.bias_locations),
                   high_severity |->
                       Len(SelectSeq(st.bias_locations,
                                     LAMBDA b : b.severity = "high")),
                   categories_affected |->
                       {st.bias_locations[i].category :
                            i \in 1..Len(st.bias_locations)}]]

\* The pattern loop of detect_bias_detailed, continuous_ai.py lines
\* 197-210: the locations it appends, one for each match of each pattern.
\* The keyword stage of that handler is not modelled.
detailed_interview_locations(text) ==
    LET words == split(lower(text))
    IN  Flatten([p \in 1..Len(detailed_interview_bias_patterns) |->
            LET matches == finditer(DetailedInterviewPhrases[p], words, 1)
            IN  [m \in 1..Len(matches) |-> InterviewLocation(p, matches[m])]])

\* POST /ai/bias.
DetectBias ==
    /\ ai.pc = "idle"
    /\ \E text \in AiTexts, pipeline \in AiPipelines :
           ai' = [pc |-> "responded", op |-> "detect_bias", text |-> text,
                  response |-> <<detect_bias(text, pipeline)>>]
    /\ UNCHANGED <<scorer_vars, thread_vars, batch, sentiment, auth_vars, limiter,
                   store, unified_vars, selection>>

\* POST /continuous-ai/detect-bias-detailed, its interview locations.
DetectBiasDetailed ==
    /\ ai.pc = "idle"
    /\ \E text \in AiTexts :
           ai' = [pc |-> "responded", op |-> "detect_bias_detailed",
                  text |-> text,
                  response |-> <<[locations |->
                                     detailed_interview_locations(text)]>>]
    /\ UNCHANGED <<scorer_vars, thread_vars, batch, sentiment, auth_vars, limiter,
                   store, unified_vars, selection>>

\* The response has gone to the client.
AiDeliver ==
    /\ ai.pc = "responded"
    /\ ai' = NoAi
    /\ UNCHANGED <<scorer_vars, thread_vars, batch, sentiment, auth_vars, limiter,
                   store, unified_vars, selection>>

NextAi == DetectBias \/ DetectBiasDetailed \/ AiDeliver

SpecAi == Init /\ [][NextAi]_vars

\* C11: in every execution, concurrent request threads included, the
\* classifier is trained once: no second fit ever completes.
C11_TrainedOnce == heap.fits <= 1

\* C13: every call that reads a non-null pipeline reference predicts with a
\* fully trained pipeline: no call is degraded to (False, 0.0).
C13_RaceHarmless ==
    \A t \in Threads :
        (thread[t].pc = "returned" /\ thread[t].pipeline # "None") =>
            thread[t].outcome = "classified"

\* The module globals of a fresh process.
FreshGlobals ==
    [bias_pipeline |-> "None", vectorizer |-> "None", classifier |-> "None",
     train_count |-> 0]

C18_SentimentMapping ==
    sentiment.pc = "responded" =>
        LET c == sentiment.outcome.compound
            r == sentiment.response.result
        IN  /\ Len(r) = 1
            /\ r[1].label \in {"POSITIVE", "NEGATIVE", "NEUTRAL"}
            /\ sentiment.outcome.raises =>
                   r[1].label = "NEUTRAL" /\ 10 * r[1].score = 5 * ONE
            /\ ~sentiment.outcome.raises =>
                   /\ 100 * c >= 5 * ONE =>
                          r[1].label = "POSITIVE" /\ r[1].score = c
                   /\ 100 * c <= 0 - 5 * ONE =>
                          r[1].label = "NEGATIVE" /\ r[1].score = 0 - c
                   /\ (100 * c < 5 * ONE /\ 100 * c > 0 - 5 * ONE) =>
                          r[1].label = "NEUTRAL" /\ 10 * r[1].score = 5 * ONE

\* C18 witness: the compound score is exactly 0.05 and the label POSITIVE.
C18_Witness ==
    /\ sentiment.pc = "responded"
    /\ ~sentiment.outcome.raises
    /\ 100 * sentiment.outcome.compound = 5 * ONE
    /\ sentiment.response.result[1].label = "POSITIVE"

\* C20: while a user is revoked and not approved again, no login by that
\* user and no call guarded by get_current_user or require_admin made with
\* that user's token succeeds, whenever the token was issued.
C20_RevokedLosesAccess ==
    ~(/\ api.status = 200
      /\ api.op \notin {"signup", "create_admin_dev"}
      /\ api.user \in revoked)

\* C21: an account created through signup gets no access token from login
\* before an admin has approved it with approve_user.
C21_ApprovalBeforeLogin ==
    ~(/\ api.op = "login"
      /\ api.status = 200
      /\ api.user \in pending)

\* The three operations an admin may not apply to the own account.
SelfOps == {"reject_user", "revoke_user", "delete_user"}

\* C26: reject_user, revoke_user and delete_user called by an admin on the
\* admin's own id answer 400 and leave the users table as it was.
C26_AdminKeepsOwnAccount ==
    /\ [](  (/\ api.op \in SelfOps
             /\ api.user # 0
             /\ api.user = api.target
             /\ api.status \notin {401, 403})
          => api.status = 400)
    /\ [][(/\ api' # api
           /\ api'.op \in SelfOps
           /\ api'.user # 0
           /\ api'.user = api'.target
           /\ UserById(users, api'.user).role = "Admin")
          => (api'.status = 400 /\ users' = users)]_vars

\* C26 witness: an admin's revoke_user on the own id was answered 400 and
\* the admin is still approved.
C26_Witness ==
    /\ api.op = "revoke_user"
    /\ api.status = 400
    /\ api.user = api.target
    /\ UserById(users, api.user).role = "Admin"
    /\ UserById(users, api.user).is_approved

\* C22: within one minute, the 11th and later login requests of one client
\* are answered 429 and do not reach authentication.
C22_LoginRateLimited ==
    limiter.last.nth > RequestsPerMinute =>
        (limiter.last.status = 429 /\ ~limiter.last.reached)

\* The responses that carry transcript rows.
TranscriptOps == {"list_transcript", "get_full_transcript", "transcript_csv"}

\* C23: a request for the transcript of a session by anyone but its owner,
\* unauthenticated callers included, is refused and returns no row of it.
C23_TranscriptOwnerOnly ==
    (/\ store.last.op \in TranscriptOps
     /\ ItemsOf(store.transcripts, store.last.session_id) # {}
     /\ store.last.caller # SessionById(store.sessions, store.last.session_id).user_id)
        => (store.last.status # 200 /\ store.last.content = {})

\* C24: every item a user's unified_analysis calls have flagged since the
\* last clear is returned by that user's get_flagged_detections and counted
\* in total_flagged and in the summary.
C24_FlaggedAreReturned ==
    (/\ analysis.pc = "responded"
     /\ analysis.op = "get_flagged_detections"
     /\ analysis.status = 200)
        => LET mine == analysis.tracked[analysis.caller]
               r == analysis.body[1]
           IN  /\ \A i \in 1..Len(mine) :
                      \E j \in 1..Len(r.flagged_items) : r.flagged_items[j] = mine[i]
               /\ r.total_flagged >= Len(mine)
               /\ r.summary.negative_sentiment + r.summary.bias_detection >= Len(mine)

\* C25: a text that is empty after trimming is rejected with status 400 and
\* detail "Text cannot be empty", and nothing is analysed or tracked.
C25_EmptyTextIs400 ==
    (/\ analysis.pc = "responded"
     /\ analysis.op \in {"unified_analysis", "unified_analysis_public"}
     /\ analysis.status # 401
     /\ strip(analysis.text) = << >>)
        => /\ analysis.status = 400
           /\ analysis.detail = "Text cannot be empty"
           /\ analysis.body = << >>

RECURSIVE SumCounts(_, _)
\* The sum of the counts of a distribution over a set of keys.
SumCounts(distribution, keys) ==
    IF keys = {} THEN 0
    ELSE LET k == CHOOSE x \in keys : TRUE
         IN  distribution[k] + SumCounts(distribution, keys \ {k})

\* C27: for every n >= 0 and every non-empty list, the returned counts sum
\* to n, any two differ by at most 1, and the larger counts belong to the
\* earliest-listed difficulties.
C27_BalancedSplit ==
    selection.pc = "responded"
        => LET d == selection.distribution
               l == selection.difficulties
           IN  /\ SumCounts(d, DOMAIN d) = selection.num_questions
               /\ \A a, b \in DOMAIN d : d[a] - d[b] <= 1
               /\ \A i, j \in 1..Len(l) : i < j => d[l[i]] >= d[l[j]]

\* The number of matches of the patterns in the words.
MatchCount(phrases, words) ==
    Len(Flatten([p \in DOMAIN phrases |-> finditer(phrases[p], words, 1)]))

\* The entries of category "interview_bias".
InterviewEntries(locations) ==
    SelectSeq(locations, LAMBDA b : b.category = "interview_bias")

\* C28: detect_bias reports one "interview_bias" location for each match
\* of its interview patterns, as detect_bias_detailed does for its own, and
\* a text with no keyword and no match is reported unflagged, with no
\* location and no error field.
C28_OneEntryPerMatch ==
    ai.pc = "responded"
        => LET r == ai.response[1]
               words == split(lower(ai.text))
           IN  IF ai.op = "detect_bias_detailed"
               THEN Len(InterviewEntries(r.locations))
                        = MatchCount(DetailedInterviewPhrases, words)
               ELSE /\ Len(InterviewEntries(r.bias_locations))
                          = MatchCount(InterviewPhrases, words)
                    /\ (/\ MatchCount(InterviewPhrases, words) = 0
                        /\ \A c \in 1..Len(bias_patterns) :
                               ~ContainsAny(lower(ai.text), bias_patterns[c].keywords))
                           => /\ r.flagged = FALSE
                              /\ r.bias_locations = << >>
                              /\ "error" \notin DOMAIN r
====
